---- MODULE Spec2Model ----
(***************************************************************************)
(* Model of the Jarvis home agent's capability registry, dispatcher,       *)
(* Telegram confirmation workflow, HTTP front end and audit log            *)
(* (src/home_agent/app).                                                   *)
(*                                                                         *)
(* Representation:                                                         *)
(*  - a capability or action name is the sequence of its '.'-separated     *)
(*    segments: "system.status" is <<"system", "status">>, the bare        *)
(*    "status" is <<"status">>.  "'.' in s" is Len(s) > 1, and             *)
(*    s.split(".", 1) is <<Head(s), Tail(s)>>;                             *)
(*  - a Python Optional is a sequence of length 0 (None) or 1;             *)
(*  - a params dict is a set of <<key, value>> pairs;                      *)
(*  - a message text is a sequence of one-character strings;               *)
(*  - registry._modules (an insertion-ordered dict) is a sequence of       *)
(*    module instances with pairwise distinct names.                       *)
(***************************************************************************)
EXTENDS Integers, Sequences, FiniteSets, TLC

VARIABLES
    modules,   \* ModuleRegistry._modules, in dict (insertion) order
    pending,   \* telegram_bot.PENDING_CONFIRMATIONS: user id -> {capability, params}
    owner,     \* telegram_bot.AUTHORIZED_USER_ID (Optional[int])
    audit,     \* rows of the audit_log table, in insertion order
    last,      \* observation of the latest handler run: its inputs, its reply, the execute calls it made
    notes,     \* rows of the notes table, in insertion order
    clock,     \* the reading datetime.now() gives next to a thread inside AuditLog
    lock,      \* AuditLog._lock: the thread holding it, if any
    threads,   \* per thread: its position inside an AuditLog method and what the methods returned to it
    client,    \* KaliModule._client: the cached SSH client, if any
    history,   \* AIInterpreter.conversation_history: the number of entries it holds
    started,   \* the Telegram users whose /start was answered with the welcome, where observed
    said       \* the text of the Telegram message handled last, where observed

vars ==
    <<modules, pending, owner, audit, last, notes, clock, lock, threads, client, history,
      started, said>>

(***************************************************************************)
(* Bounds of the exploration                                               *)
(***************************************************************************)
MaxAudit == 2
MaxModules == 2
MaxNotes == 2
MaxHistory == 4

(***************************************************************************)
(* Generic helpers                                                         *)
(***************************************************************************)
None == <<>>

Some(x) == <<x>>

Range(s) == {s[i] : i \in DOMAIN s}

\* dict.get(key, default) on a params dict
ParamGet(params, key, default) ==
    IF \E p \in params : p[1] = key
    THEN (CHOOSE p \in params : p[1] = key)[2]
    ELSE default

(***************************************************************************)
(* module_base.py: ActionStatus, ActionResult, ModuleCapability            *)
(***************************************************************************)
SUCCESS == "success"
ERROR == "error"
PENDING == "pending"
REQUIRES_CONFIRMATION == "requires_confirmation"

ActionStatus == {SUCCESS, ERROR, PENDING, REQUIRES_CONFIRMATION}

NoData == [kind |-> "none", capability |-> <<>>, params |-> {}]

\* a message is a format string with at most one interpolated name
Msg(fmt, arg) == [fmt |-> fmt, arg |-> arg]

ActionResult(status, message, data) ==
    [status |-> status, message |-> message, data |-> data]

\* no ActionResult: nothing was returned
NoResult == ActionResult("none", Msg("", <<>>), NoData)

ModuleCapability(name, requires_confirmation, dangerous) ==
    [name |-> name, requires_confirmation |-> requires_confirmation, dangerous |-> dangerous]

(***************************************************************************)
(* The shipped modules: their names, descriptors and action maps           *)
(***************************************************************************)
SystemCapabilities ==
    << ModuleCapability(<<"system", "screenshot">>, FALSE, FALSE),
       ModuleCapability(<<"system", "status">>, FALSE, FALSE),
       ModuleCapability(<<"system", "add_note">>, FALSE, FALSE),
       ModuleCapability(<<"system", "get_notes">>, FALSE, FALSE),
       ModuleCapability(<<"system", "list_windows">>, FALSE, FALSE) >>

WindowsCapabilities ==
    << ModuleCapability(<<"windows", "open_app">>, FALSE, FALSE),
       ModuleCapability(<<"windows", "close_app">>, TRUE, TRUE),
       ModuleCapability(<<"windows", "focus_window">>, FALSE, FALSE),
       ModuleCapability(<<"windows", "run_command">>, TRUE, TRUE),
       ModuleCapability(<<"windows", "list_apps">>, FALSE, FALSE),
       ModuleCapability(<<"windows", "type_text">>, FALSE, FALSE),
       ModuleCapability(<<"windows", "press_key">>, FALSE, FALSE) >>

CursorCapabilities ==
    << ModuleCapability(<<"cursor", "open">>, FALSE, FALSE),
       ModuleCapability(<<"cursor", "new_file">>, FALSE, FALSE),
       ModuleCapability(<<"cursor", "open_file">>, FALSE, FALSE),
       ModuleCapability(<<"cursor", "run_terminal">>, FALSE, FALSE),
       ModuleCapability(<<"cursor", "git_status">>, FALSE, FALSE),
       ModuleCapability(<<"cursor", "git_commit">>, TRUE, FALSE),
       ModuleCapability(<<"cursor", "create_project">>, FALSE, FALSE) >>

KaliCapabilities ==
    << ModuleCapability(<<"kali", "run_command">>, TRUE, TRUE),
       ModuleCapability(<<"kali", "check_connection">>, FALSE, FALSE),
       ModuleCapability(<<"kali", "list_tools">>, FALSE, FALSE),
       ModuleCapability(<<"kali", "start_service">>, TRUE, FALSE),
       ModuleCapability(<<"kali", "get_ip">>, FALSE, FALSE) >>

\* action_map of each execute: every handler is keyed by "<module>.<action>" and by "<action>"
\* an action map that leaves the short names out
FullKeyOnly(mod, act, handler) == {<<<<mod, act>>, handler>>}

BothKeys(mod, act, handler) == {<<<<mod, act>>, handler>>, <<<<act>>, handler>>}

SystemActionMap ==
    BothKeys("system", "screenshot", "_take_screenshot")
    \cup BothKeys("system", "status", "_get_status")
    \cup BothKeys("system", "add_note", "_add_note")
    \cup BothKeys("system", "get_notes", "_get_notes")
    \cup BothKeys("system", "list_windows", "_list_windows")

WindowsActionMap ==
    BothKeys("windows", "open_app", "_open_app")
    \cup BothKeys("windows", "close_app", "_close_app")
    \cup BothKeys("windows", "focus_window", "_focus_window")
    \cup BothKeys("windows", "run_command", "_run_command")
    \cup BothKeys("windows", "list_apps", "_list_apps")
    \cup BothKeys("windows", "type_text", "_type_text")
    \cup BothKeys("windows", "press_key", "_press_key")

CursorActionMap ==
    BothKeys("cursor", "open", "_open_cursor")
    \cup BothKeys("cursor", "new_file", "_new_file")
    \cup BothKeys("cursor", "open_file", "_open_file")
    \cup BothKeys("cursor", "run_terminal", "_run_terminal")
    \cup BothKeys("cursor", "git_status", "_git_status")
    \cup BothKeys("cursor", "git_commit", "_git_commit")
    \cup BothKeys("cursor", "create_project", "_create_project")

KaliActionMap ==
    BothKeys("kali", "run_command", "_run_command")
    \cup BothKeys("kali", "check_connection", "_check_connection")
    \cup BothKeys("kali", "list_tools", "_list_tools")
    \cup BothKeys("kali", "start_service", "_start_service")
    \cup BothKeys("kali", "get_ip", "_get_ip")

\* Two further ModuleBase subclasses, used to exercise the registry with
\* descriptor names that are bare or shared between modules.
AlphaCapabilities ==
    << ModuleCapability(<<"open">>, FALSE, FALSE),
       ModuleCapability(<<"alpha", "scan">>, FALSE, FALSE) >>

BetaCapabilities ==
    << ModuleCapability(<<"open">>, FALSE, FALSE),
       ModuleCapability(<<"alpha", "scan">>, FALSE, FALSE),
       ModuleCapability(<<"beta", "wipe">>, TRUE, TRUE) >>

ShippedClasses == <<"SystemModule", "WindowsModule", "CursorModule", "KaliModule">>

ClassName(cls) ==
    CASE cls = "SystemModule" -> "system"
      [] cls = "WindowsModule" -> "windows"
      [] cls = "CursorModule" -> "cursor"
      [] cls = "KaliModule" -> "kali"
      [] cls = "AlphaModule" -> "alpha"
      [] cls = "BetaModule" -> "beta"

ClassCapabilities(cls) ==
    CASE cls = "SystemModule" -> SystemCapabilities
      [] cls = "WindowsModule" -> WindowsCapabilities
      [] cls = "CursorModule" -> CursorCapabilities
      [] cls = "KaliModule" -> KaliCapabilities
      [] cls = "AlphaModule" -> AlphaCapabilities
      [] cls = "BetaModule" -> BetaCapabilities

ClassActionMap(cls) ==
    CASE cls = "SystemModule" -> SystemActionMap
      [] cls = "WindowsModule" -> WindowsActionMap
      [] cls = "CursorModule" -> CursorActionMap
      [] cls = "KaliModule" -> KaliActionMap
      [] cls = "AlphaModule" -> {<<<<"open">>, "_open">>, <<<<"scan">>, "_scan">>}
      [] cls = "BetaModule" -> {<<<<"open">>, "_open">>, <<<<"wipe">>, "_wipe">>}

(***************************************************************************)
(* module_base.py: ModuleBase                                              *)
(***************************************************************************)
\* ModuleBase.__init__: a freshly constructed instance is enabled
NewModule(cls) == [name |-> ClassName(cls), cls |-> cls, enabled |-> TRUE]

FirstIndex(S) == CHOOSE i \in S : \A j \in S : i <= j

FirstAt(s, hits) == IF hits = {} THEN None ELSE Some(s[FirstIndex(hits)])

\* the loop of get_capability over self._capabilities
CapabilityIn(caps, name) == FirstAt(caps, {i \in DOMAIN caps : caps[i].name = name})

get_capability(module, name) == CapabilityIn(ClassCapabilities(module.cls), name)

has_capability(module, name) == get_capability(module, name) # None

(***************************************************************************)
(* registry.py: ModuleRegistry                                             *)
(***************************************************************************)
IndexIn(hits) == IF hits = {} THEN 0 ELSE FirstIndex(hits)

IndexOf(mods, name) == IndexIn({i \in DOMAIN mods : mods[i].name = name})

\* a dict keeps the position of a key that is assigned again
PutAt(mods, module, i) ==
    IF i = 0 THEN Append(mods, module) ELSE [mods EXCEPT ![i] = module]

\* a table that takes every registration as a new entry
AppendAlways(mods, module) == Append(mods, module)

register(mods, module) == PutAt(mods, module, IndexOf(mods, module.name))

\* a table that never lets go of an entry
KeepEntry(mods, name) == mods

\* unregister's return value: "name in self._modules"
Unregistered(mods, name) == \E i \in DOMAIN mods : mods[i].name = name

unregister(mods, name) == SelectSeq(mods, LAMBDA m : m.name # name)

At(mods, i) == IF i = 0 THEN None ELSE Some(mods[i])

get(mods, name) == At(mods, IndexOf(mods, name))

\* a registry whose lookup does not skip disabled modules
EveryModule(mods) == mods

get_enabled(mods) == SelectSeq(mods, LAMBDA m : m.enabled)

\* [cap.name for cap in module.capabilities]
CapabilityNames(caps) == [k \in DOMAIN caps |-> caps[k].name]

\* the module a key of the mapping stands for
Named(ms, name) == CHOOSE m \in Range(ms) : m.name = name

\* a listing that takes the disabled modules along
ListEveryModule(mods) ==
    [n \in {m.name : m \in Range(mods)} |->
        CapabilityNames(ClassCapabilities(Named(mods, n).cls))]

\* lines 32-36: a fresh dict, one key per enabled module
list_capabilities(mods) ==
    [n \in {m.name : m \in Range(get_enabled(mods))} |->
        CapabilityNames(ClassCapabilities(Named(get_enabled(mods), n).cls))]

Found(module, action) == Some([module |-> module, action |-> action])

FoundAt(en, hits, capability) ==
    IF hits = {} THEN None ELSE Found(en[FirstIndex(hits)], capability)

\* lines 45-49: the first enabled module, in table order, holding the exact name
FirstEnabledWith(en, capability) ==
    FoundAt(en, {i \in DOMAIN en : has_capability(en[i], capability)}, capability)

\* line 42: the module named by the prefix exists, is enabled and holds the full name
\* a lookup without the namespaced first phase
NeverQualified(module, capability) == FALSE

Qualified(module, capability) ==
    /\ module # None
    /\ module[1].enabled
    /\ has_capability(module[1], capability)

\* a namespaced phase that hands back the full name instead of the action
LookupFullName(mods, capability, module) ==
    IF Qualified(module, capability)
    THEN Found(module[1], capability)
    ELSE FirstEnabledWith(get_enabled(mods), capability)

Lookup(mods, capability, module) ==
    IF Qualified(module, capability)
    THEN Found(module[1], Tail(capability))
    ELSE FirstEnabledWith(get_enabled(mods), capability)

find_capability(mods, capability) ==
    Lookup(mods, capability, IF Len(capability) > 1 THEN get(mods, Head(capability)) ELSE None)

(***************************************************************************)
(* The modules' execute: action_map lookup, then the handler               *)
(***************************************************************************)
\* the parameter each handler rejects when missing or empty ("" = none)
RequiredParam(handler) ==
    CASE handler \in {"_open_app", "_close_app"} -> "app"
      [] handler = "_focus_window" -> "title"
      [] handler \in {"_run_command", "_run_terminal"} -> "command"
      [] handler = "_type_text" -> "text"
      [] handler = "_press_key" -> "keys"
      [] handler \in {"_new_file", "_open_file"} -> "path"
      [] handler = "_git_commit" -> "message"
      [] handler = "_create_project" -> "name"
      [] handler = "_start_service" -> "service"
      [] handler = "_add_note" -> "content"
      [] OTHER -> ""

\* handlers that go on without their parameter
NeverRejects(required, params) == FALSE

Rejects(required, params) == required # "" /\ ParamGet(params, required, "") = ""

\* What a handler returns.  env is the outcome of the handler's external
\* work (process, SSH, GUI, sqlite): "ok" or "fail".
HandlerResult(handler, params, env) ==
    IF Rejects(RequiredParam(handler), params)
    THEN ActionResult(ERROR, Msg("required parameter missing", <<handler>>), NoData)
    ELSE IF env = "ok"
    THEN ActionResult(SUCCESS, Msg("handler succeeded", <<handler>>),
                      [kind |-> "module", capability |-> <<>>, params |-> {}])
    ELSE ActionResult(ERROR, Msg("handler failed", <<handler>>), NoData)

\* action_map.get(action)
MapGet(entries) == IF entries = {} THEN None ELSE Some((CHOOSE e \in entries : TRUE)[2])

Handler(cls, action) == MapGet({e \in ClassActionMap(cls) : e[1] = action})

RunHandler(handler, action, params, env) ==
    IF handler # None
    THEN HandlerResult(handler[1], params, env)
    ELSE ActionResult(ERROR, Msg("Unknown action: {}", action), NoData)

execute(module, action, params, env) ==
    RunHandler(Handler(module.cls, action), action, params, env)

\* how an execute call ends for its caller: it returns an ActionResult, an
\* exception escapes it, or it never completes
Ended(env) ==
    CASE env = "raise" -> "raised"
      [] env = "hang" -> "hung"
      [] OTHER -> "returned"

\* one invocation of a module's execute, as observed from outside
Call(module, action, params, env) ==
    [module |-> module.name, action |-> action, params |-> params, ended |-> Ended(env)]

(***************************************************************************)
(* registry.py: Dispatcher.dispatch                                        *)
(* The value is the ActionResult returned and the execute calls made.      *)
(* env = "raise" is a fault escaping the module's execute; env = "hang" is *)
(* an execute that never completes, so that the await of line 76 never     *)
(* yields a result.                                                        *)
(***************************************************************************)
Outcome(result, calls) == [result |-> result, calls |-> calls]

\* lines 58-63
\* a not-found answer that does not name the capability
AnonymousNotFound(capability) ==
    ActionResult(ERROR, Msg("Capability not found", <<>>), NoData)

NotFoundResult(capability) ==
    ActionResult(ERROR, Msg("Capability '{}' not found in any enabled module", capability), NoData)

\* lines 69-73
ConfirmationResult(capability, params) ==
    ActionResult(REQUIRES_CONFIRMATION, Msg("Action '{}' requires confirmation", capability),
                 [kind |-> "confirmation", capability |-> capability, params |-> params])

\* line 68: "cap and cap.requires_confirmation"
\* a dispatcher without the confirmation gate
NeverGated(cap) == FALSE

Gated(cap) == cap # None /\ cap[1].requires_confirmation

\* a dispatcher without the try block: the fault escapes and nothing is returned
Unguarded(module, action, capability, params, env) ==
    IF Ended(env) = "returned" THEN execute(module, action, params, env) ELSE NoResult

\* lines 75-81: the try block around module.execute
TryExecute(module, action, capability, params, env) ==
    IF env = "raise"
    THEN ActionResult(ERROR, Msg("Error executing '{}': <cause>", capability), NoData)
    ELSE IF env = "hang"
    THEN NoResult
    ELSE execute(module, action, params, env)

\* a dispatcher that calls execute again when the first call did not succeed
InvokeWithRetry(module, action, capability, params, env) ==
    Outcome(execute(module, action, params, env),
            IF env = "ok"
            THEN <<Call(module, action, params, env)>>
            ELSE <<Call(module, action, params, env), Call(module, action, params, env)>>)

Invoke(module, action, capability, params, env) ==
    Outcome(TryExecute(module, action, capability, params, env),
            <<Call(module, action, params, env)>>)

DispatchResolved(module, action, cap, capability, params, env) ==
    IF Gated(cap)
    THEN Outcome(ConfirmationResult(capability, params), <<>>)
    ELSE Invoke(module, action, capability, params, env)

DispatchFound(result, capability, params, env) ==
    IF result = None
    THEN Outcome(NotFoundResult(capability), <<>>)
    ELSE DispatchResolved(result[1].module, result[1].action,
                          get_capability(result[1].module, capability),
                          capability, params, env)

dispatch(mods, capability, params, env) ==
    DispatchFound(find_capability(mods, capability), capability, params, env)

(***************************************************************************)
(* audit_log.py: AuditLog.log_action                                       *)
(***************************************************************************)
\* params_json = json.dumps(params) if params else None: an empty dict is stored as NULL
AuditRecord(module, action, status, user_id, params, result) ==
    [user_id |-> user_id, module |-> module, action |-> action,
     params |-> IF params = {} THEN None ELSE Some(params),
     status |-> status, result |-> result]

\* a table row: the AUTOINCREMENT id, the timestamp column, and the caller's columns
Row(id, timestamp, r) ==
    [id |-> id, timestamp |-> timestamp, user_id |-> r.user_id, module |-> r.module,
     action |-> r.action, params |-> r.params, status |-> r.status, result |-> r.result]

\* an id that is handed out again
StaleId(log) == 1

\* cursor.lastrowid of an AUTOINCREMENT key in a table nothing is deleted from
NextId(log) == Len(log) + 1

\* a write that replaces the table's content
Overwrite(log, timestamp, r) == <<Row(1, timestamp, r)>>

\* lines 66-78: INSERT and commit
InsertRow(log, timestamp, r) == Append(log, Row(NextId(log), timestamp, r))

\* line 63, for calls made one after another: each reading of datetime.now() is
\* later than the readings before it
Now(log) == Len(log) + 1

\* log_action run to completion by one caller
log_action(log, module, action, status, user_id, params, result) ==
    InsertRow(log, Now(log), AuditRecord(module, action, status, user_id, params, result))

\* lines 80-91: SELECT * FROM audit_log ORDER BY timestamp DESC LIMIT ?
Newest(rows) == CHOOSE r \in rows : \A q \in rows : q.timestamp <= r.timestamp

RECURSIVE RecentFrom(_, _, _)
RecentFrom(rows, r, limit) ==
    IF limit <= 1 \/ rows = {r}
    THEN <<r>>
    ELSE <<r>> \o RecentFrom(rows \ {r}, Newest(rows \ {r}), limit - 1)

get_recent_logs(log, limit) ==
    IF log = <<>> \/ limit = 0
    THEN <<>>
    ELSE RecentFrom(Range(log), Newest(Range(log)), limit)

\* lines 93-101: INSERT INTO notes and commit
add_note(table, timestamp, content) ==
    Append(table, [id |-> NextId(table), timestamp |-> timestamp, content |-> content])

(***************************************************************************)
(* Text: str.strip, str.lower, "w in s"                                    *)
(***************************************************************************)
Whitespace == {" ", "\t", "\n"}

UpperCase == <<"A", "B", "C", "D", "E", "F", "G", "H", "I", "J", "K", "L", "M",
               "N", "O", "P", "Q", "R", "S", "T", "U", "V", "W", "X", "Y", "Z">>

LowerCase == <<"a", "b", "c", "d", "e", "f", "g", "h", "i", "j", "k", "l", "m",
               "n", "o", "p", "q", "r", "s", "t", "u", "v", "w", "x", "y", "z">>

Trim(t, keep) ==
    IF keep = {} THEN <<>>
    ELSE SubSeq(t, CHOOSE i \in keep : \A j \in keep : i <= j,
                   CHOOSE i \in keep : \A j \in keep : j <= i)

strip(t) == Trim(t, {i \in DOMAIN t : t[i] \notin Whitespace})

ToLower(c, ks) == IF ks = {} THEN c ELSE LowerCase[CHOOSE k \in ks : TRUE]

lower(t) == [i \in DOMAIN t |-> ToLower(t[i], {k \in DOMAIN UpperCase : UpperCase[k] = t[i]})]

\* Python's "w in t" for strings
Contains(t, w) ==
    \E i \in 1..(Len(t) - Len(w) + 1) : SubSeq(t, i, i + Len(w) - 1) = w

AnyIn(t, words) == \E w \in words : Contains(t, w)

(***************************************************************************)
(* ai_interpreter.py: AIInterpreter                                        *)
(***************************************************************************)
Request(capability, params) == [capability |-> capability, params |-> params]

Interpretation(action, response) == [action |-> action, response |-> response]

ScreenshotWords ==
    { <<"s","c","r","e","e","n","s","h","o","t">>, <<"s","c","r","e","e","n">>,
      <<"s","h","o","w"," ","m","e">>, <<"w","h","a","t","'","s"," ","o","n">> }

OpenWords ==
    { <<"o","p","e","n">>, <<"s","t","a","r","t">>, <<"l","a","u","n","c","h">>, <<"r","u","n">> }

AppNames ==
    << <<"c","h","r","o","m","e">>, <<"f","i","r","e","f","o","x">>, <<"n","o","t","e","p","a","d">>,
       <<"c","u","r","s","o","r">>, <<"c","o","d","e">>, <<"w","o","r","d">>, <<"e","x","c","e","l">>,
       <<"o","u","t","l","o","o","k">>, <<"c","m","d">>, <<"p","o","w","e","r","s","h","e","l","l">> >>

AppId ==
    <<"chrome", "firefox", "notepad", "cursor", "code", "word", "excel", "outlook", "cmd", "powershell">>

StatusWords ==
    { <<"s","t","a","t","u","s">>, <<"h","o","w"," ","a","r","e"," ","y","o","u">>,
      <<"w","h","a","t","'","s"," ","u","p">> }

NoteWords ==
    { <<"n","o","t","e">>, <<"r","e","m","e","m","b","e","r">>, <<"s","a","v","e">> }

HelpWords ==
    { <<"h","e","l","p">>, <<"w","h","a","t"," ","c","a","n"," ","y","o","u"," ","d","o">>,
      <<"c","a","p","a","b","i","l","i","t","i","e","s">> }

\* the first application of the list named in the message, 0 if none
FirstApp(message_lower) ==
    IndexIn({i \in DOMAIN AppNames : Contains(message_lower, AppNames[i])})

\* lines 49-58: the enabled modules of the registry with their capability names
_get_capabilities_summary == list_capabilities(modules)

\* the rules with the status keywords tried before the applications
StatusBeforeOpen(message_lower, app) ==
    IF AnyIn(message_lower, ScreenshotWords)
    THEN Interpretation(Some(Request(<<"system", "screenshot">>, {})),
                        Msg("Taking a screenshot...", <<>>))
    ELSE IF AnyIn(message_lower, StatusWords)
    THEN Interpretation(Some(Request(<<"system", "status">>, {})),
                        Msg("Checking system status...", <<>>))
    ELSE IF AnyIn(message_lower, OpenWords) /\ app # 0
    THEN Interpretation(Some(Request(<<"windows", "open_app">>, {<<"app", AppId[app]>>})),
                        Msg("Opening {}...", <<AppId[app]>>))
    ELSE IF AnyIn(message_lower, NoteWords)
    THEN Interpretation(Some(Request(<<"system", "add_note">>, {<<"content", "<message>">>})),
                        Msg("Saving note...", <<>>))
    ELSE IF AnyIn(message_lower, HelpWords)
    THEN Interpretation(None, Msg("I can help you with: {}", <<_get_capabilities_summary>>))
    ELSE Interpretation(None, Msg("I received your message: <message>", <<>>))

FallbackRules(message_lower, app) ==
    IF AnyIn(message_lower, ScreenshotWords)
    THEN Interpretation(Some(Request(<<"system", "screenshot">>, {})),
                        Msg("Taking a screenshot...", <<>>))
    ELSE IF AnyIn(message_lower, OpenWords) /\ app # 0
    THEN Interpretation(Some(Request(<<"windows", "open_app">>, {<<"app", AppId[app]>>})),
                        Msg("Opening {}...", <<AppId[app]>>))
    ELSE IF AnyIn(message_lower, StatusWords)
    THEN Interpretation(Some(Request(<<"system", "status">>, {})),
                        Msg("Checking system status...", <<>>))
    ELSE IF AnyIn(message_lower, NoteWords)
    THEN Interpretation(Some(Request(<<"system", "add_note">>, {<<"content", "<message>">>})),
                        Msg("Saving note...", <<>>))
    ELSE IF AnyIn(message_lower, HelpWords)
    THEN Interpretation(None, Msg("I can help you with: {}", <<_get_capabilities_summary>>))
    ELSE Interpretation(None, Msg("I received your message: <message>", <<>>))

_fallback_interpret(user_message) ==
    FallbackRules(lower(user_message), FirstApp(lower(user_message)))

\* line 85: the length above which the history is cut back
HistoryLimit == 10

\* lines 85-86: conversation_history = conversation_history[-10:]
Trimmed(n) == IF n > HistoryLimit THEN HistoryLimit ELSE n

\* The entries conversation_history holds when interpret returns: the user's message
\* is appended and the list trimmed (lines 80-86); the assistant's response is
\* appended once the output has been parsed (lines 122-125), before the audit write.
Remember(n, backend) ==
    IF backend \in {"ok", "audit_fault"} THEN Trimmed(n + 1) + 1 ELSE Trimmed(n + 1)

\* the outcomes of the request that interpret answers with _fallback_interpret
FallbackCauses == {"down", "unreachable", "non200", "no_json"}

\* clear_history: conversation_history = []
clear_history == history' = 0

\* interpret: what it returns, what it appends to the audit log, and the history it
\* leaves.
\* backend is the outcome of the request to the language model:
\*   "unreachable" - requests.post raised a RequestException (lines 139-140);
\*   "non200" - an answer with another status than 200 (lines 107-108);
\*   "no_json" - output that json.loads rejects and that holds no "{...}" (lines 112-119);
\*   "down"  - one of the three above, where the front ends need not tell them apart;
\*   "bad_json" - output that json.loads rejects and whose "{...}" part it rejects
\*             too: the JSONDecodeError of line 117 leaves the try block;
\*   "not_object" - output that is JSON but no object: parsed.get (line 124) raises;
\*   "ok"    - output parsed into `parsed`;
\*   "audit_fault" - output parsed, then audit_log.log_action raised (line 127);
\*   "fault" - any other exception inside the try block.
\* audit_failed tells whether the audit write of line 127 raised.
\* The audit row of a successful interpretation stores the message text and
\* the parsed JSON; the model keeps a placeholder for each.
interpret(log, user_message, user_id, backend, parsed) ==
    CASE backend = "ok" ->
           [interpretation |-> parsed,
            audit |-> log_action(log, "ai_interpreter", <<"interpret">>, "success", user_id,
                                 {<<"message", "<message>">>},
                                 Some(Msg("json.dumps(parsed)", <<>>))),
            audit_failed |-> FALSE, history |-> Remember(history, backend)]
      [] backend \in FallbackCauses ->
           [interpretation |-> _fallback_interpret(user_message), audit |-> log,
            audit_failed |-> FALSE, history |-> Remember(history, backend)]
      [] OTHER ->
           [interpretation |-> Interpretation(None, Msg("Sorry, I encountered an error: <cause>", <<>>)),
            audit |-> log,
            audit_failed |-> (backend = "audit_fault"), history |-> Remember(history, backend)]

\* lines 209-210: result.message is overwritten with the interpreter's response on success
WithResponse(o, response) ==
    IF o.result.status = SUCCESS
    THEN Outcome([o.result EXCEPT !.message = response], o.calls)
    ELSE o

execute_interpreted(mods, interpretation, env) ==
    IF interpretation.action = None
    THEN Outcome(ActionResult(SUCCESS, interpretation.response,
                              [kind |-> "message_only", capability |-> <<>>, params |-> {}]),
                 <<>>)
    ELSE WithResponse(dispatch(mods, interpretation.action[1].capability,
                               interpretation.action[1].params, env),
                      interpretation.response)

(***************************************************************************)
(* Inputs of the exploration                                               *)
(***************************************************************************)
Users == {1, 2}

\* str(user_id)
ToStr(u) == IF u = 1 THEN "1" ELSE "2"

HttpUsersIn == {Some("api")}

RequestsIn ==
    { Request(<<"system", "status">>, {}),
      Request(<<"windows", "run_command">>, {<<"command", "dir">>}),
      Request(<<"kali", "run_command">>, {<<"command", "id">>}),
      Request(<<"nonexistent", "capability">>, {}) }

TextsIn ==
    { <<"y","e","s">>, <<" ","Y","e","s","\n">>, <<"n","o">>,
      <<"h","i">>, <<"s","t","a","t","u","s">> }

\* the texts sent to the bot where the replies are studied
RepliesIn ==
    { <<"y","e","s">>, <<" ","Y","e","s","\n">>, <<"n","o">>, <<"d","o"," ","i","t">>,
      <<"y","e","s"," ","p","l","e","a","s","e">>, <<"h","i">> }

\* the texts posted to /message
MessagesIn == { <<"h","i">>, <<"s","t","a","t","u","s">> }

\* the last one answers {"action": {...}, "response": ""}
ParsedIn ==
    {Interpretation(None, Msg("<model response>", <<>>))}
    \cup {Interpretation(Some(r), Msg("<model response>", <<>>)) : r \in RequestsIn}
    \cup {Interpretation(Some(Request(<<"system", "status">>, {})), Msg("", <<>>))}

\* what the language model backend does with one request
OracleIn ==
    {[backend |-> "down", parsed |-> Interpretation(None, Msg("", <<>>))],
     [backend |-> "fault", parsed |-> Interpretation(None, Msg("", <<>>))],
     [backend |-> "audit_fault", parsed |-> Interpretation(None, Msg("", <<>>))]}
    \cup {[backend |-> "ok", parsed |-> p] : p \in ParsedIn}

\* the outcomes of the request to the language model, told apart
BackendsIn ==
    {"unreachable", "non200", "no_json", "bad_json", "not_object", "audit_fault", "ok"}

EnvIn == {"ok", "fail", "raise", "hang"}

ToggleIn == {"system", "windows", "ghost"}

\* the modules whose state is asked for
StateOfIn == {"system", "kali", "ghost"}

\* the outcome of the connection check against the Kali host
ReachIn == {"ok", "fail"}

\* readings of datetime.now()
TimesIn == {1, 2}


(***************************************************************************)
(* The observation of a handler run                                        *)
(***************************************************************************)
\* audit_failed: an audit write raised during the run.
\* value: what a registry or module method returned, where the handler has no ActionResult.
\* op: the handler; branch: the path taken; user: the requester as logged;
\* request: the {capability, params} handled; dispatched: whether
\* Dispatcher.dispatch was called; result: what the handler got back or
\* answered; calls: the execute calls made; prior: the requester's pending
\* entry before the run.
Observe(op, branch, user, request, confirmed, dispatched, result, calls, prior) ==
    [op |-> op, branch |-> branch, user |-> user, request |-> request,
     confirmed |-> confirmed, dispatched |-> dispatched, result |-> result,
     calls |-> calls, prior |-> prior, found |-> None, audit_failed |-> FALSE,
     value |-> None]

\* the observation of one ModuleRegistry.find_capability call and what it returned
ObserveFind(capability, found) ==
    [Observe("find_capability", IF found = None THEN "none" ELSE "found", None,
             Request(capability, {}), FALSE, FALSE, NoResult, <<>>, None)
     EXCEPT !.found = found]

NoRequest == Request(<<>>, {})

\* the observation of a call that returns a plain value
ObserveValue(op, branch, prior, value) ==
    [Observe(op, branch, None, NoRequest, FALSE, FALSE, NoResult, <<>>, prior)
     EXCEPT !.value = Some(value)]

\* a handler run that answers with the interpreter's response alone
ObserveReply(obs, i) ==
    [obs EXCEPT !.result = ActionResult("none", i.interpretation.response, NoData),
                !.audit_failed = i.audit_failed]

\* the dispatch awaited by the handler never returned
Hung(o) == o.calls # <<>> /\ o.calls[1].ended = "hung"

\* a handler's statements after its dispatch run only once the dispatch has returned
BranchAfter(o, branch) == IF Hung(o) THEN "hung" ELSE branch

AuditAfter(o, log, module, action, user_id, params) ==
    IF Hung(o)
    THEN log
    ELSE log_action(log, module, action, o.result.status, user_id, params,
                    Some(o.result.message))

\* kali_module.py lines 60-73: a client is built, connected and cached unless a
\* live one is cached already
_get_ssh_client(c) == IF c = None THEN Some("SSHClient") ELSE c

\* KaliModule._client after a dispatch: each of the five Kali handlers
\* obtains the client (lines 118, 166, 198, 234, 267) before the work that
\* makes it succeed
KaliAfter(c, o) ==
    IF o.calls # <<>> /\ o.calls[1].module = "kali" /\ o.result.status = SUCCESS
    THEN _get_ssh_client(c)
    ELSE c

\* the Python idiom "cap and cap.requires_confirmation"
RequiresConfirmation(cap) == cap # None /\ cap[1].requires_confirmation

(***************************************************************************)
(* main.py: POST /action, POST /action/confirm, POST /message,             *)
(* POST /modules/{name}/enable|disable                                     *)
(***************************************************************************)
\* lines 141-167: the dispatch, the audit row, the response
ActionDone(module, action, o, req, user_id, confirmed) ==
    /\ audit' = AuditAfter(o, audit, module.name, action, user_id, req.params)
    /\ last' = Observe("execute_action", BranchAfter(o, "done"), user_id, req, confirmed, TRUE,
                       o.result, o.calls, None)
    /\ client' = KaliAfter(client, o)
    /\ UNCHANGED <<modules, pending, owner, history, started>>

\* lines 134-167
ActionFound(module, action, cap, req, user_id, confirmed) ==
    IF RequiresConfirmation(cap) /\ ~confirmed
    THEN /\ last' = Observe("execute_action", "gate", user_id, req, confirmed, FALSE,
                            ConfirmationResult(req.capability, req.params), <<>>, None)
         /\ UNCHANGED <<modules, pending, owner, audit, client, history, started>>
    ELSE \E env \in EnvIn :
             ActionDone(module, action, dispatch(modules, req.capability, req.params, env),
                        req, user_id, confirmed)

\* lines 125-167
ActionLookedUp(cap_info, req, user_id, confirmed) ==
    IF cap_info = None
    THEN /\ last' = Observe("execute_action", "404", user_id, req, confirmed, FALSE,
                            NoResult, <<>>, None)
         /\ UNCHANGED <<modules, pending, owner, audit, client, history, started>>
    ELSE ActionFound(cap_info[1].module, cap_info[1].action,
                     get_capability(cap_info[1].module, req.capability),
                     req, user_id, confirmed)

execute_action(capability, params, user_id, confirmed) ==
    ActionLookedUp(find_capability(modules, capability), Request(capability, params),
                   user_id, confirmed)

confirm_action(capability, params, user_id) ==
    execute_action(capability, params, user_id, TRUE)

\* lines 96-108
MessageAction(i, o, user_id) ==
    /\ audit' = i.audit
    /\ last' = Observe("process_message", BranchAfter(o, "action"), user_id, i.interpretation.action[1],
                       FALSE, TRUE, o.result, o.calls, None)
    /\ client' = KaliAfter(client, o)
    /\ history' = i.history
    /\ UNCHANGED <<modules, pending, owner, started>>

\* lines 91-114
MessageInterpreted(i, user_id) ==
    IF i.interpretation.action # None
    THEN \E env \in EnvIn :
             MessageAction(i, execute_interpreted(modules, i.interpretation, env), user_id)
    ELSE /\ audit' = i.audit
         /\ last' = ObserveReply(Observe("process_message", "no_action", user_id, NoRequest,
                                         FALSE, FALSE, NoResult, <<>>, None), i)
         /\ history' = i.history
         /\ UNCHANGED <<modules, pending, owner, client, started>>

process_message(message, user_id, backend, parsed) ==
    MessageInterpreted(interpret(audit, message, user_id, backend, parsed), user_id)

SetEnabled(mods, name, flag) ==
    [i \in DOMAIN mods |-> IF mods[i].name = name THEN [mods[i] EXCEPT !.enabled = flag] ELSE mods[i]]

enable_module(module_name) ==
    /\ modules' = SetEnabled(modules, module_name, TRUE)
    /\ last' = Observe("enable_module", IF get(modules, module_name) = None THEN "404" ELSE "done",
                       None, NoRequest, FALSE, FALSE, NoResult, <<>>, None)
    /\ UNCHANGED <<pending, owner, audit, client, history, started>>

disable_module(module_name) ==
    /\ modules' = SetEnabled(modules, module_name, FALSE)
    /\ last' = Observe("disable_module", IF get(modules, module_name) = None THEN "404" ELSE "done",
                       None, NoRequest, FALSE, FALSE, NoResult, <<>>, None)
    /\ UNCHANGED <<pending, owner, audit, client, history, started>>

\* get_state of the shipped modules.  SystemModule returns the data of _get_status,
\* which holds the reading of datetime.now() (system_module.py 94-103, 213-215);
\* KaliModule runs _check_connection and reports whether it succeeded
\* (kali_module.py 284-292); the other two return configuration values.
\* reach is whether the Kali host is configured, reachable and accepts the login.
get_state(module, reach, now) ==
    [module |-> module.name,
     time |-> IF module.cls = "SystemModule" THEN now ELSE 0,
     connected |-> (module.cls = "KaliModule" /\ reach = "ok")]

\* KaliModule._client after get_state: _check_connection obtains the client once the
\* port answers (kali_module.py 153-166)
StateClient(module, reach, c) ==
    IF module.cls = "KaliModule" /\ reach = "ok" THEN _get_ssh_client(c) ELSE c

\* main.py lines 210-228
ModuleState(module, reach, now) ==
    /\ client' = StateClient(module, reach, client)
    /\ last' = ObserveValue("get_module", "done", None, get_state(module, reach, now))
    /\ UNCHANGED <<modules, pending, owner, audit, history, started>>

\* GET /modules/{module_name}: main.py lines 204-228
get_module(module_name) ==
    IF get(modules, module_name) = None
    THEN /\ last' = Observe("get_module", "404", None, NoRequest, FALSE, FALSE,
                            NoResult, <<>>, None)
         /\ UNCHANGED <<modules, pending, owner, audit, client, history, started>>
    ELSE \E reach \in ReachIn, now \in TimesIn :
             ModuleState(get(modules, module_name)[1], reach, now)

\* POST /conversation/clear: main.py lines 281-284
\* a clearing that empties the audit log as well
ResetConversation ==
    /\ clear_history
    /\ audit' = <<>>
    /\ last' = ObserveValue("clear_conversation", "done", None, history)
    /\ UNCHANGED <<modules, pending, owner, client, started>>

\* the observation records how many entries were dropped
clear_conversation ==
    /\ clear_history
    /\ last' = ObserveValue("clear_conversation", "done", None, history)
    /\ UNCHANGED <<modules, pending, owner, audit, client, started>>

(***************************************************************************)
(* telegram_bot.py: /start, text messages, /status                         *)
(***************************************************************************)
AffirmativeWords ==
    { <<"y","e","s">>, <<"y">>, <<"c","o","n","f","i","r","m">>, <<"o","k">>, <<"d","o"," ","i","t">> }

NegativeWords ==
    { <<"n","o">>, <<"n">>, <<"c","a","n","c","e","l">>, <<"a","b","o","r","t">> }

\* str(user_id), as the audit log stores the requester
Uid(u) == Some(ToStr(u))

Prior(u) == IF u \in DOMAIN pending THEN Some(pending[u]) ELSE None

\* a store that keeps the requester's first entry
KeepFirst(p, u, entry) ==
    [x \in DOMAIN p \cup {u} |-> IF x \in DOMAIN p THEN p[x] ELSE entry]

SetPending(p, u, entry) ==
    [x \in DOMAIN p \cup {u} |-> IF x = u THEN entry ELSE p[x]]

\* a store that never forgets
KeepPending(p, u) == p

DelPending(p, u) == [x \in DOMAIN p \ {u} |-> p[x]]

start(u) ==
    IF owner = None
    THEN /\ owner' = Some(u)
         /\ audit' = log_action(audit, "telegram", <<"authorize">>, "success", Uid(u), {},
                                Some(Msg("User <name> authorized as owner", <<>>)))
         /\ last' = Observe("start", "authorized", Uid(u), NoRequest, FALSE, FALSE,
                            NoResult, <<>>, Prior(u))
         /\ UNCHANGED <<modules, pending, client, history>>
    ELSE IF u # owner[1]
    THEN /\ audit' = log_action(audit, "telegram", <<"access_denied">>, "error", Uid(u), {}, None)
         /\ last' = Observe("start", "denied", Uid(u), NoRequest, FALSE, FALSE,
                            NoResult, <<>>, Prior(u))
         /\ UNCHANGED <<modules, pending, owner, client, history>>
    ELSE /\ last' = Observe("start", "ready", Uid(u), NoRequest, FALSE, FALSE,
                            NoResult, <<>>, Prior(u))
         /\ UNCHANGED <<modules, pending, owner, audit, client, history>>

\* lines 96-110: the slot is cleared, the stored action dispatched, the outcome logged
Confirmed(u, p, o) ==
    /\ pending' = DelPending(pending, u)
    /\ audit' = AuditAfter(o, audit, "telegram", p.capability, Uid(u), p.params)
    /\ last' = Observe("handle_message", BranchAfter(o, "confirm_yes"), Uid(u), p, FALSE, TRUE,
                       o.result, o.calls, Some(p))
    /\ client' = KaliAfter(client, o)
    /\ UNCHANGED <<modules, owner, history, started>>

\* the affirmative branch: lines 95-110
ConfirmYes(u) ==
    \E env \in EnvIn :
        Confirmed(u, pending[u],
                  dispatch(modules, pending[u].capability, pending[u].params, env))

\* the negative branch: lines 112-115
ConfirmNo(u) ==
    /\ pending' = DelPending(pending, u)
    /\ last' = Observe("handle_message", "confirm_no", Uid(u), pending[u], FALSE, FALSE,
                       NoResult, <<>>, Some(pending[u]))
    /\ UNCHANGED <<modules, owner, audit, client, history, started>>

\* lines 139-151: the action is parked in the requester's slot
Store(u, i, req) ==
    /\ pending' = SetPending(pending, u, req)
    /\ audit' = i.audit
    /\ last' = Observe("handle_message", "stored", Uid(u), req, FALSE, FALSE,
                       NoResult, <<>>, Prior(u))
    /\ history' = i.history
    /\ UNCHANGED <<modules, owner, client, started>>

\* a dispatch that takes the requester's parked action away
DispatchedAndForgot(u, i, req, o) ==
    /\ audit' = AuditAfter(o, i.audit, "telegram", req.capability, Uid(u), req.params)
    /\ last' = Observe("handle_message", BranchAfter(o, "dispatched"), Uid(u), req, FALSE, TRUE,
                       o.result, o.calls, Prior(u))
    /\ client' = KaliAfter(client, o)
    /\ history' = i.history
    /\ pending' = DelPending(pending, u)
    /\ UNCHANGED <<modules, owner, started>>

\* lines 153-164: the dispatch, the audit row, the reply
Dispatched(u, i, req, o) ==
    /\ audit' = AuditAfter(o, i.audit, "telegram", req.capability, Uid(u), req.params)
    /\ last' = Observe("handle_message", BranchAfter(o, "dispatched"), Uid(u), req, FALSE, TRUE,
                       o.result, o.calls, Prior(u))
    /\ client' = KaliAfter(client, o)
    /\ history' = i.history
    /\ UNCHANGED <<modules, pending, owner, started>>

\* lines 134-163
Requested(u, i, req, cap_info) ==
    IF cap_info # None /\ RequiresConfirmation(get_capability(cap_info[1].module, req.capability))
    THEN Store(u, i, req)
    ELSE \E env \in EnvIn :
             Dispatched(u, i, req, execute_interpreted(modules, i.interpretation, env))

\* lines 126-166
Decide(u, i) ==
    IF i.interpretation.action # None
    THEN Requested(u, i, i.interpretation.action[1],
                   find_capability(modules, i.interpretation.action[1].capability))
    ELSE /\ audit' = i.audit
         /\ last' = ObserveReply(Observe("handle_message", "no_action", Uid(u), NoRequest,
                                         FALSE, FALSE, NoResult, <<>>, Prior(u)), i)
         /\ history' = i.history
         /\ UNCHANGED <<modules, pending, owner, client, started>>

\* the interpretation branch: lines 118-171
Interpreted(u, message_text, backend, parsed) ==
    Decide(u, interpret(audit, message_text, Uid(u), backend, parsed))

\* a reading of the reply that looks for the words inside it
FuzzyReply(u, message_text, reply) ==
    IF u \in DOMAIN pending /\ AnyIn(reply, AffirmativeWords)
    THEN ConfirmYes(u)
    ELSE IF u \in DOMAIN pending /\ AnyIn(reply, NegativeWords)
    THEN ConfirmNo(u)
    ELSE \E o \in OracleIn : Interpreted(u, message_text, o.backend, o.parsed)

\* lines 91-171, for the owner
Reply(u, message_text, reply) ==
    IF u \in DOMAIN pending /\ reply \in AffirmativeWords
    THEN ConfirmYes(u)
    ELSE IF u \in DOMAIN pending /\ reply \in NegativeWords
    THEN ConfirmNo(u)
    ELSE \E o \in OracleIn : Interpreted(u, message_text, o.backend, o.parsed)

\* a handler that serves whoever writes
ServeAnyone(u, text) == Reply(u, strip(text), lower(strip(text)))

handle_message(u, text) ==
    IF owner = None
    THEN /\ last' = Observe("handle_message", "uninitialized", Uid(u), NoRequest,
                            FALSE, FALSE, NoResult, <<>>, Prior(u))
         /\ UNCHANGED <<modules, pending, owner, audit, client, history, started>>
    ELSE IF u # owner[1]
    THEN /\ last' = Observe("handle_message", "ignored", Uid(u), NoRequest,
                            FALSE, FALSE, NoResult, <<>>, Prior(u))
         /\ UNCHANGED <<modules, pending, owner, audit, client, history, started>>
    ELSE Reply(u, strip(text), lower(strip(text)))

\* lines 240-245: "status" is run on the system module directly, without the registry's lookup
\* No try block surrounds the call: an exception escapes the handler.
StatusRun(u, system_module, env) ==
    /\ last' = Observe("status_command",
                       IF Ended(env) = "returned" THEN "done" ELSE Ended(env),
                       Uid(u), Request(<<"status">>, {}), FALSE, FALSE,
                       IF Ended(env) = "returned"
                       THEN execute(system_module, <<"status">>, {}, env)
                       ELSE NoResult,
                       <<Call(system_module, <<"status">>, {}, env)>>, Prior(u))
    /\ UNCHANGED <<modules, pending, owner, audit, client, history, started>>

status_command(u) ==
    IF owner # None /\ u # owner[1]
    THEN /\ last' = Observe("status_command", "ignored", Uid(u), NoRequest, FALSE, FALSE,
                            NoResult, <<>>, Prior(u))
         /\ UNCHANGED <<modules, pending, owner, audit, client, history, started>>
    ELSE IF get(modules, "system") # None
    THEN \E env \in EnvIn : StatusRun(u, get(modules, "system")[1], env)
    ELSE /\ last' = Observe("status_command", "unavailable", Uid(u), NoRequest, FALSE,
                            FALSE, NoResult, <<>>, Prior(u))
         /\ UNCHANGED <<modules, pending, owner, audit, client, history, started>>

(***************************************************************************)
(* audit_log.py: the threads inside AuditLog (run_agent.py starts the API  *)
(* server in a thread of its own beside the Telegram bot)                  *)
(***************************************************************************)
\* no thread is inside an AuditLog method
Idle == [pc |-> "idle", timestamp |-> 0, ids |-> <<>>, op |-> "none", limit |-> 0, rows |-> <<>>]

Threads == {"api", "telegram"}

InitAuditLog ==
    /\ notes = <<>>
    /\ clock = 1
    /\ lock = None
    /\ threads = [t \in Threads |-> Idle]

\* no Telegram update handled yet
InitTelegram ==
    /\ started = {}
    /\ said = <<>>

\* the text of the update is observed only where the replies are studied
Unobserved == UNCHANGED said

\* so are the users who have been welcomed
Unwelcomed == UNCHANGED started

\* lines 49-77: /start answers the first user, and the owner afterwards, with the welcome
Welcomed(u, branch) == IF branch \in {"authorized", "ready"} THEN started \cup {u} ELSE started

\* KaliModule.__init__: no client yet
InitKali == client = None

\* AIInterpreter.__init__: an empty history
InitInterpreter == history = 0

\* the handlers of the front ends complete their audit writes within the step, and
\* none of the requests explored there asks for system.add_note
AuditLogIdle == UNCHANGED <<notes, clock, lock, threads>>

(***************************************************************************)
(* The agent: both front ends over the shipped modules                     *)
(***************************************************************************)
\* register_modules (main.py / telegram_bot.py) has run: the four shipped modules, all
\* enabled.  AUTHORIZED_USER_ID starts as settings.authorized_user_id: unset, or the
\* configured owner.
Init ==
    /\ modules = [i \in DOMAIN ShippedClasses |-> NewModule(ShippedClasses[i])]
    /\ pending = <<>>
    /\ owner \in {None, Some(1)}
    /\ audit = <<>>
    /\ last = Observe("init", "init", None, NoRequest, FALSE, FALSE, NoResult, <<>>, None)
    /\ InitAuditLog
    /\ InitKali
    /\ InitInterpreter
    /\ InitTelegram

AuditFits == Len(audit') <= MaxAudit

\* the front ends are explored while the conversation history is short
HistoryFits == history' <= MaxHistory

TgStart == \E u \in Users : start(u) /\ AuditFits /\ AuditLogIdle /\ Unobserved /\ Unwelcomed

TgMessage ==
    \E u \in Users, text \in TextsIn :
        handle_message(u, text) /\ AuditFits /\ HistoryFits /\ AuditLogIdle /\ Unobserved /\ Unwelcomed

TgStatus == \E u \in Users : status_command(u) /\ AuditLogIdle /\ Unobserved /\ Unwelcomed

HttpAction ==
    \E r \in RequestsIn, user_id \in HttpUsersIn, confirmed \in BOOLEAN :
        execute_action(r.capability, r.params, user_id, confirmed) /\ AuditFits /\ AuditLogIdle /\ Unobserved

HttpConfirm ==
    \E r \in RequestsIn, user_id \in HttpUsersIn :
        confirm_action(r.capability, r.params, user_id) /\ AuditFits /\ AuditLogIdle /\ Unobserved

HttpMessage ==
    \E text \in MessagesIn, user_id \in HttpUsersIn, o \in OracleIn :
        process_message(text, user_id, o.backend, o.parsed) /\ AuditFits /\ HistoryFits /\ AuditLogIdle /\ Unobserved

HttpEnable == \E name \in ToggleIn : enable_module(name) /\ AuditLogIdle /\ Unobserved

HttpDisable == \E name \in ToggleIn : disable_module(name) /\ AuditLogIdle /\ Unobserved

HttpModule == \E name \in StateOfIn : get_module(name) /\ AuditLogIdle /\ Unobserved

HttpClear == clear_conversation /\ AuditLogIdle /\ Unobserved

\* The Telegram bot, with the module switches of the HTTP front end
Next ==
    \/ TgStart
    \/ TgMessage
    \/ TgStatus
    \/ HttpEnable
    \/ HttpDisable

Spec == Init /\ [][Next]_vars

\* The Telegram conversation on its own, with the text of each message and the
\* welcomed users observed
TgBegin ==
    \E u \in Users :
        /\ start(u)
        /\ started' = Welcomed(u, last'.branch)
        /\ AuditFits /\ AuditLogIdle /\ Unobserved

TgSay ==
    \E u \in Users, text \in RepliesIn :
        /\ handle_message(u, text)
        /\ said' = text
        /\ AuditFits /\ HistoryFits /\ AuditLogIdle /\ Unwelcomed

NextConfirm ==
    \/ TgBegin
    \/ TgSay

SpecConfirm == Init /\ [][NextConfirm]_vars

\* The HTTP front end
NextApi ==
    \/ HttpAction
    \/ HttpConfirm
    \/ HttpMessage
    \/ HttpEnable
    \/ HttpDisable

SpecApi == Init /\ [][NextApi]_vars

\* The HTTP front end over a fixed registry: requests, messages, module state and
\* the clearing of the conversation
NextService ==
    \/ HttpAction
    \/ HttpMessage
    \/ HttpModule
    \/ HttpClear

SpecService == Init /\ [][NextService]_vars

(***************************************************************************)
(* The interpreter on its own: interpret and clear_history                 *)
(***************************************************************************)
\* interpret has returned i for the text
AiReturn(i, backend, text) ==
    /\ audit' = i.audit
    /\ history' = i.history
    /\ said' = text
    /\ last' = [ObserveValue("interpret", backend, None, i.interpretation)
                EXCEPT !.audit_failed = i.audit_failed]
    /\ UNCHANGED <<modules, pending, owner, client, started>>

AiInterpret ==
    \E text \in MessagesIn, user_id \in HttpUsersIn, backend \in BackendsIn, parsed \in ParsedIn :
        /\ AiReturn(interpret(audit, text, user_id, backend, parsed), backend, text)
        /\ AuditFits /\ AuditLogIdle

AiClear ==
    /\ clear_history
    /\ last' = ObserveValue("clear_history", "done", None, history)
    /\ UNCHANGED <<modules, pending, owner, audit, client, started>>
    /\ AuditLogIdle /\ Unobserved

NextInterpreter ==
    \/ AiInterpret
    \/ AiClear

SpecInterpreter == Init /\ [][NextInterpreter]_vars

(***************************************************************************)
(* The rule-based fallback on its own, beside the module switches          *)
(***************************************************************************)
\* messages that match one rule, several rules, or none
FallbackIn ==
    { <<"h","i">>,
      <<"h","e","l","p">>,
      <<"S","t","a","t","u","s">>,
      <<"s","h","o","w"," ","m","e"," ","s","t","a","t","u","s">>,
      <<"o","p","e","n"," ","c","h","r","o","m","e"," ","s","t","a","t","u","s">>,
      <<"r","u","n"," ","s","t","a","t","u","s"," ","n","o","t","e">>,
      <<"s","a","v","e"," ","h","e","l","p">>,
      <<"s","t","a","r","t"," ","c","o","d","e"," ","i","n"," ","c","u","r","s","o","r">> }

ShippedNames == {ClassName(ShippedClasses[i]) : i \in DOMAIN ShippedClasses}

FbInterpret ==
    \E text \in FallbackIn :
        /\ last' = ObserveValue("_fallback_interpret", "done", None, _fallback_interpret(text))
        /\ said' = text
        /\ UNCHANGED <<modules, pending, owner, audit, client, history, started>>
        /\ AuditLogIdle

\* a module is switched on or off between two calls of the fallback
FbEnable ==
    \E name \in ShippedNames :
        /\ modules' = SetEnabled(modules, name, TRUE)
        /\ UNCHANGED <<last, pending, owner, audit, client, history, started>>
        /\ AuditLogIdle /\ Unobserved

FbDisable ==
    \E name \in ShippedNames :
        /\ modules' = SetEnabled(modules, name, FALSE)
        /\ UNCHANGED <<last, pending, owner, audit, client, history, started>>
        /\ AuditLogIdle /\ Unobserved

NextFallback ==
    \/ FbInterpret
    \/ FbEnable
    \/ FbDisable

SpecFallback == Init /\ [][NextFallback]_vars

(***************************************************************************)
(* The registry on its own: registration, removal, switches and lookups    *)
(* over modules that share descriptor names                                *)
(***************************************************************************)
RegistryClasses == {"AlphaModule", "BetaModule", "SystemModule"}

RegistryNames == {ClassName(cls) : cls \in RegistryClasses}

NamesIn ==
    { <<"open">>, <<"alpha", "scan">>, <<"beta", "wipe">>, <<"system", "status">>,
      <<"status">>, <<"ghost", "open">> }

InitRegistry ==
    /\ modules = <<>>
    /\ pending = <<>>
    /\ owner = None
    /\ audit = <<>>
    /\ last = Observe("init", "init", None, NoRequest, FALSE, FALSE, NoResult, <<>>, None)
    /\ InitAuditLog
    /\ InitKali
    /\ InitInterpreter
    /\ InitTelegram

RegRegister ==
    \E cls \in RegistryClasses :
        /\ Len(register(modules, NewModule(cls))) <= MaxModules
        /\ modules' = register(modules, NewModule(cls))
        /\ last' = ObserveValue("register", ClassName(cls), get(modules, ClassName(cls)),
                                NewModule(cls))
        /\ UNCHANGED <<pending, owner, audit, client, history, started>>
        /\ AuditLogIdle /\ Unobserved

RegUnregister ==
    \E name \in RegistryNames :
        /\ modules' = unregister(modules, name)
        /\ last' = ObserveValue("unregister", name, get(modules, name),
                                Unregistered(modules, name))
        /\ UNCHANGED <<pending, owner, audit, client, history, started>>
        /\ AuditLogIdle /\ Unobserved

RegEnable == \E name \in RegistryNames : enable_module(name) /\ AuditLogIdle /\ Unobserved

RegDisable == \E name \in RegistryNames : disable_module(name) /\ AuditLogIdle /\ Unobserved

RegFind ==
    \E capability \in NamesIn :
        /\ last' = ObserveFind(capability, find_capability(modules, capability))
        /\ UNCHANGED <<modules, pending, owner, audit, client, history, started>>
        /\ AuditLogIdle /\ Unobserved

RegList ==
    /\ last' = ObserveValue("list_capabilities", "done", None, list_capabilities(modules))
    /\ UNCHANGED <<modules, pending, owner, audit, client, history, started>>
    /\ AuditLogIdle /\ Unobserved

NextRegistry ==
    \/ RegList
    \/ RegRegister
    \/ RegUnregister
    \/ RegEnable
    \/ RegDisable
    \/ RegFind

SpecRegistry == InitRegistry /\ [][NextRegistry]_vars

(***************************************************************************)
(* The audit log on its own: the API thread and the Telegram thread call   *)
(* log_action, add_note and get_recent_logs, interleaved statement by      *)
(* statement                                                               *)
(***************************************************************************)
LimitsIn == {1, 2}

\* the columns a thread logs
ThreadRecord(t) ==
    IF t = "api"
    THEN AuditRecord("system", <<"status">>, SUCCESS, Some("api"), {}, None)
    ELSE AuditRecord("telegram", <<"system", "status">>, SUCCESS, Some("1"), {}, None)

\* writes begun and not yet committed
Writing(pcs) == Cardinality({t \in Threads : threads[t].pc \in pcs})

InitAudit ==
    /\ modules = [i \in DOMAIN ShippedClasses |-> NewModule(ShippedClasses[i])]
    /\ pending = <<>>
    /\ owner = None
    /\ audit = <<>>
    /\ last = Observe("init", "init", None, NoRequest, FALSE, FALSE, NoResult, <<>>, None)
    /\ InitAuditLog
    /\ InitKali
    /\ InitInterpreter
    /\ InitTelegram

\* log_action line 63: timestamp = datetime.now().isoformat(), before the lock is taken
LogStamp ==
    \E t \in Threads :
        /\ threads[t].pc = "idle"
        /\ Len(audit) + Writing({"log_stamped", "log_locked"}) < MaxAudit
        /\ threads' = [threads EXCEPT ![t].pc = "log_stamped", ![t].timestamp = clock]
        /\ clock' = clock + 1
        /\ UNCHANGED <<modules, pending, owner, audit, last, notes, lock, client, history, started, said>>

\* log_action line 66: with self._lock
LogAcquire ==
    \E t \in Threads :
        /\ threads[t].pc = "log_stamped"
        /\ lock = None
        /\ lock' = Some(t)
        /\ threads' = [threads EXCEPT ![t].pc = "log_locked"]
        /\ UNCHANGED <<modules, pending, owner, audit, last, notes, clock, client, history, started, said>>

\* log_action lines 67-78: INSERT, commit, return cursor.lastrowid, release the lock
LogCommit ==
    \E t \in Threads :
        /\ threads[t].pc = "log_locked"
        /\ lock = Some(t)
        /\ audit' = InsertRow(audit, threads[t].timestamp, ThreadRecord(t))
        /\ lock' = None
        /\ threads' = [threads EXCEPT ![t].pc = "idle", ![t].op = "log_action",
                                      ![t].ids = Append(@, NextId(audit))]
        /\ UNCHANGED <<modules, pending, owner, last, notes, clock, client, history, started, said>>

\* add_note line 94: timestamp = datetime.now().isoformat()
NoteStamp ==
    \E t \in Threads :
        /\ threads[t].pc = "idle"
        /\ Len(notes) + Writing({"note_stamped"}) < MaxNotes
        /\ threads' = [threads EXCEPT ![t].pc = "note_stamped", ![t].timestamp = clock]
        /\ clock' = clock + 1
        /\ UNCHANGED <<modules, pending, owner, audit, last, notes, lock, client, history, started, said>>

\* add_note lines 95-101: INSERT and commit, without self._lock
NoteCommit ==
    \E t \in Threads :
        /\ threads[t].pc = "note_stamped"
        /\ notes' = add_note(notes, threads[t].timestamp, "<content>")
        /\ threads' = [threads EXCEPT ![t].pc = "idle", ![t].op = "add_note"]
        /\ UNCHANGED <<modules, pending, owner, audit, last, clock, lock, client, history, started, said>>

\* get_recent_logs: one SELECT
ReadLogs ==
    \E t \in Threads, limit \in LimitsIn :
        /\ threads[t].pc = "idle"
        /\ threads' = [threads EXCEPT ![t].op = "get_recent_logs", ![t].limit = limit,
                                      ![t].rows = get_recent_logs(audit, limit)]
        /\ UNCHANGED <<modules, pending, owner, audit, last, notes, clock, lock, client, history, started, said>>

NextAudit ==
    \/ LogStamp
    \/ LogAcquire
    \/ LogCommit
    \/ NoteStamp
    \/ NoteCommit
    \/ ReadLogs

SpecAudit == InitAudit /\ [][NextAudit]_vars

(***************************************************************************)
(* The shipped modules on their own: execute called directly and through   *)
(* the dispatcher                                                          *)
(***************************************************************************)
\* action names no shipped module knows, or only some of them know
StrangeActions == {<<"bogus">>, <<"status">>, <<"windows", "open_app">>}

ActionsOf(cls) == {e[1] : e \in ClassActionMap(cls)} \cup StrangeActions

\* params dicts around a parameter name: absent, empty, present, beside another key
ParamsAround(key) ==
    {{}, {<<"args", "x">>}} \cup (IF key = "" THEN {} ELSE {{<<key, "">>}, {<<key, "x">>}})

ParamsOf(handler) == ParamsAround(IF handler = None THEN "" ELSE RequiredParam(handler[1]))

\* system_module.py 123-135: _add_note hands the content to audit_log.add_note
\* once it is past its check and the insert succeeds
NotesAfter(table, o) ==
    IF /\ o.calls # <<>>
       /\ o.calls[1].module = "system"
       /\ o.calls[1].action \in {<<"system", "add_note">>, <<"add_note">>}
       /\ o.result.status = SUCCESS
    THEN add_note(table, Now(table), ParamGet(o.calls[1].params, "content", ""))
    ELSE table

ModuleRan(op, request, dispatched, o) ==
    /\ last' = Observe(op, "returned", None, request, FALSE, dispatched, o.result, o.calls, None)
    /\ client' = KaliAfter(client, o)
    /\ notes' = NotesAfter(notes, o)
    /\ Len(notes') <= MaxNotes
    /\ UNCHANGED <<modules, pending, owner, audit, clock, lock, threads, history, started, said>>

ModExecute ==
    \E i \in DOMAIN modules, env \in ReachIn :
        \E action \in ActionsOf(modules[i].cls) :
            \E params \in ParamsOf(Handler(modules[i].cls, action)) :
                ModuleRan("execute", Request(action, params), FALSE,
                          Outcome(execute(modules[i], action, params, env),
                                  <<Call(modules[i], action, params, env)>>))

ModDispatch ==
    \E i \in DOMAIN modules, env \in ReachIn :
        \E k \in DOMAIN ClassCapabilities(modules[i].cls) :
            \E params \in ParamsOf(Handler(modules[i].cls,
                                           ClassCapabilities(modules[i].cls)[k].name)) :
                ModuleRan("dispatch",
                          Request(ClassCapabilities(modules[i].cls)[k].name, params), TRUE,
                          dispatch(modules, ClassCapabilities(modules[i].cls)[k].name,
                                   params, env))

NextModules ==
    \/ ModExecute
    \/ ModDispatch

SpecModules == InitAudit /\ [][NextModules]_vars

(***************************************************************************)
(* run_agent.py, mode 'both': the API thread and the Telegram bot register *)
(* the shipped modules in the one registry                                 *)
(***************************************************************************)
\* telegram_bot.py 31-38 with the modules taken last to first
ReverseOrder == <<"KaliModule", "CursorModule", "WindowsModule", "SystemModule">>

\* main.py 27-30: the order of the registrations of the API's register_modules
ApiOrder == <<"SystemModule", "WindowsModule", "CursorModule", "KaliModule">>

\* telegram_bot.py 31-38: the order of those of the bot's register_modules
TelegramOrder == <<"SystemModule", "WindowsModule", "CursorModule", "KaliModule">>

\* an instance, and the thread that constructed it
Constructed(cls, t) ==
    [name |-> ClassName(cls), cls |-> cls, enabled |-> TRUE, thread |-> t]

\* a thread about to run statement at of its register_modules
Registering(pc, at) == [pc |-> pc, at |-> at]

AfterStatement(pc, at) ==
    IF at = Len(ShippedClasses) THEN Registering("done", at) ELSE Registering(pc, at + 1)

InitBoth ==
    /\ modules = <<>>
    /\ pending = <<>>
    /\ owner = None
    /\ audit = <<>>
    /\ last = Observe("init", "init", None, NoRequest, FALSE, FALSE, NoResult, <<>>, None)
    /\ notes = <<>>
    /\ clock = 1
    /\ lock = None
    /\ threads = [t \in Threads |->
                     Registering(IF t = "api" THEN "register" ELSE "check", 1)]
    /\ InitKali
    /\ InitInterpreter
    /\ InitTelegram

BothIdle == UNCHANGED <<pending, owner, audit, last, notes, clock, lock, client, history, started, said>>

\* main.py 27-30: registry.register(XModule())
ApiRegister ==
    /\ threads["api"].pc = "register"
    /\ modules' = register(modules, Constructed(ApiOrder[threads["api"].at], "api"))
    /\ threads' = [threads EXCEPT !["api"] = AfterStatement("register", threads["api"].at)]
    /\ BothIdle

\* telegram_bot.py 31, 33, 35, 37: if not registry.get(name)
TgCheck ==
    /\ threads["telegram"].pc = "check"
    /\ threads' = [threads EXCEPT !["telegram"] =
                      IF get(modules, ClassName(TelegramOrder[threads["telegram"].at])) = None
                      THEN Registering("register", threads["telegram"].at)
                      ELSE AfterStatement("check", threads["telegram"].at)]
    /\ UNCHANGED modules
    /\ BothIdle

\* telegram_bot.py 32, 34, 36, 38: registry.register(XModule())
TgRegister ==
    /\ threads["telegram"].pc = "register"
    /\ modules' = register(modules,
                           Constructed(TelegramOrder[threads["telegram"].at], "telegram"))
    /\ threads' = [threads EXCEPT !["telegram"] = AfterStatement("check", threads["telegram"].at)]
    /\ BothIdle

NextBoth ==
    \/ ApiRegister
    \/ TgCheck
    \/ TgRegister

SpecBoth == InitBoth /\ [][NextBoth]_vars

(***************************************************************************)
(* Properties                                                              *)
(***************************************************************************)
\* the requester of the latest handler run is Telegram user u
Requester(u) == last.user = Uid(u)

\* capability resolves, in registry mods, to a descriptor that requires confirmation
ResolvesGated(mods, capability) ==
    /\ find_capability(mods, capability) # None
    /\ RequiresConfirmation(get_capability(find_capability(mods, capability)[1].module,
                                           capability))

\* module i of the table is enabled and advertises a descriptor named capability
Advertises(mods, i, capability) ==
    mods[i].enabled /\ has_capability(mods[i], capability)

\* module i is the one the capability's prefix names
PrefixNamed(mods, i, capability) ==
    Len(capability) > 1 /\ mods[i].name = Head(capability)

\* C1: whenever Dispatcher.dispatch is handed a capability whose resolved
\* descriptor requires confirmation, it answers requires_confirmation with data
\* {capability, params} and calls no module's execute.
GatedDispatchNeverExecutes ==
    (last.dispatched /\ ResolvesGated(modules, last.request.capability)) =>
        /\ last.result.status = REQUIRES_CONFIRMATION
        /\ last.result.data = [kind |-> "confirmation",
                               capability |-> last.request.capability,
                               params |-> last.request.params]
        /\ last.calls = <<>>

\* C1 witness: POST /message interpreted as windows.run_command reached the
\* dispatcher and was answered requires_confirmation without an execute call.
GatedDispatchSeen ==
    /\ last.op = "process_message"
    /\ last.dispatched
    /\ last.request.capability = <<"windows", "run_command">>
    /\ ResolvesGated(modules, last.request.capability)
    /\ last.result.status = REQUIRES_CONFIRMATION
    /\ last.calls = <<>>

\* C2: a confirmed POST /action or POST /action/confirm that reaches the
\* dispatcher invokes the module's execute exactly once and never answers
\* requires_confirmation.
ConfirmedDispatchExecutes ==
    (last.op = "execute_action" /\ last.confirmed /\ last.dispatched) =>
        /\ Len(last.calls) = 1
        /\ last.result.status # REQUIRES_CONFIRMATION

\* C3: after an affirmative Telegram reply to a pending confirmation the
\* requester's slot is empty, the stored action was dispatched, execute was invoked
\* exactly once with the stored params, and the outcome is the newest audit row.
AffirmativeReplyExecutesOnce ==
    last.branch = "confirm_yes" =>
        /\ \A u \in Users : Requester(u) => u \notin DOMAIN pending
        /\ last.dispatched
        /\ Len(last.calls) = 1
        /\ last.calls[1].params = last.prior[1].params
        /\ audit # <<>>
        /\ audit[Len(audit)].status = last.result.status

\* C4: a negative Telegram reply to a pending confirmation clears the requester's
\* slot and does nothing else: no dispatch, no execute call, no audit row, the
\* registry as before.
NegativeReplyOnlyClears ==
    [][last'.branch = "confirm_no" =>
          /\ \A u \in Users : Requester(u)' =>
                 /\ u \in DOMAIN pending
                 /\ DOMAIN pending' = DOMAIN pending \ {u}
          /\ ~last'.dispatched
          /\ last'.calls = <<>>
          /\ audit' = audit
          /\ modules' = modules]_vars

\* C4 witness: a stored windows.run_command was cancelled and nothing is pending.
NegativeReplySeen ==
    /\ last.branch = "confirm_no"
    /\ last.prior = Some(Request(<<"windows", "run_command">>, {<<"command", "dir">>}))
    /\ DOMAIN pending = {}
    /\ audit # <<>>

\* C5: the confirmation store holds at most one entry per requester (it is a map
\* keyed by requester), and right after a request interpreted as a confirmable
\* capability the requester's entry is exactly that request, whether or not an
\* entry was pending before.
PendingHoldsLastRequest ==
    /\ DOMAIN pending \subseteq Users
    /\ last.branch = "stored" =>
           \A u \in Users : Requester(u) =>
               /\ u \in DOMAIN pending
               /\ pending[u] = last.request
               /\ ResolvesGated(modules, pending[u].capability)

\* C5 witness: a confirmable request arrived while another one was pending and
\* replaced it.
PendingOverwritten ==
    /\ last.branch = "stored"
    /\ last.prior # None
    /\ last.prior[1] # last.request
    /\ \E u \in DOMAIN pending : Requester(u) /\ pending[u] = last.request

\* C6 (as the code has it): find_capability(name) returns an enabled module that
\* advertises name or nothing; for an enabled module M advertising name it is M
\* when the name's prefix names M, and otherwise M when no enabled advertiser is
\* named by the prefix and no enabled advertiser precedes M in the table.
FindReturnsPreferredAdvertiser ==
    last.op = "find_capability" =>
        /\ last.found # None =>
               \E i \in DOMAIN modules :
                   /\ Advertises(modules, i, last.request.capability)
                   /\ last.found[1].module = modules[i]
        /\ \A i \in DOMAIN modules : Advertises(modules, i, last.request.capability) =>
               IF PrefixNamed(modules, i, last.request.capability)
               THEN last.found = Some([module |-> modules[i],
                                       action |-> Tail(last.request.capability)])
               ELSE IF \A j \in DOMAIN modules :
                           Advertises(modules, j, last.request.capability) =>
                               ~PrefixNamed(modules, j, last.request.capability) /\ i <= j
               THEN last.found = Some([module |-> modules[i],
                                       action |-> last.request.capability])
               ELSE last.found # None /\ last.found[1].module # modules[i]

\* C6 witness: beta was registered before alpha, both enabled and both advertising
\* alpha.scan, and the lookup of alpha.scan returned alpha.
FindPreferredPrefix ==
    /\ last.op = "find_capability"
    /\ last.request.capability = <<"alpha", "scan">>
    /\ Len(modules) = 2
    /\ modules[1].name = "beta" /\ modules[1].enabled
    /\ modules[2].name = "alpha" /\ modules[2].enabled
    /\ last.found # None
    /\ last.found[1].module.name = "alpha"

\* C6 (as stated): for every descriptor of every registered module, the lookup of
\* the descriptor's name returns that module.
FindReturnsEveryRegistrant ==
    last.op = "find_capability" =>
        \A i \in DOMAIN modules :
            (get_capability(modules[i], last.request.capability) # None) =>
                /\ last.found # None
                /\ last.found[1].module = modules[i]

\* C7: with alpha before beta in the registry, both advertising "open", the lookup
\* of "open" returns alpha's "open" while alpha is enabled and beta's "open" once
\* alpha is disabled and beta is enabled.
UnqualifiedFollowsRegistrationOrder ==
    (/\ last.op = "find_capability"
     /\ last.request.capability = <<"open">>
     /\ Len(modules) = 2
     /\ modules[1].name = "alpha"
     /\ modules[2].name = "beta") =>
        /\ modules[1].enabled =>
               last.found = Some([module |-> modules[1], action |-> <<"open">>])
        /\ (~modules[1].enabled /\ modules[2].enabled) =>
               last.found = Some([module |-> modules[2], action |-> <<"open">>])

\* C7 witness: alpha, registered first, is disabled and the lookup of "open" fell
\* through to beta.
FellThroughToSecond ==
    /\ last.op = "find_capability"
    /\ last.request.capability = <<"open">>
    /\ Len(modules) = 2
    /\ modules[1].name = "alpha" /\ ~modules[1].enabled
    /\ modules[2].name = "beta" /\ modules[2].enabled
    /\ last.found # None
    /\ last.found[1].module.name = "beta"

\* C8: with the system module registered and enabled, the lookup of the bare name
\* "status" returns the system module, as the lookup of "system.status" does.
BareNameResolvesLikeQualified ==
    (/\ last.op = "find_capability"
     /\ last.request.capability = <<"status">>
     /\ \E i \in DOMAIN modules : modules[i].name = "system" /\ modules[i].enabled) =>
        /\ last.found # None
        /\ find_capability(modules, <<"system", "status">>) # None
        /\ last.found[1].module = find_capability(modules, <<"system", "status">>)[1].module
        /\ Handler(last.found[1].module.cls, last.found[1].action)
               = Handler("SystemModule", <<"status">>)

\* C9: a dispatch of a capability that no enabled module resolves answers status
\* error with a message that carries the capability name, and calls no execute.
UnresolvedDispatchIsNamedError ==
    (last.dispatched /\ find_capability(modules, last.request.capability) = None) =>
        /\ last.result.status = ERROR
        /\ last.result.message.arg = last.request.capability
        /\ last.result.message.arg # <<>>
        /\ last.calls = <<>>

\* C9 witness: a Telegram message interpreted as nonexistent.capability was
\* dispatched and answered with the not-found error.
UnresolvedDispatchSeen ==
    /\ last.op = "handle_message"
    /\ last.dispatched
    /\ last.request.capability = <<"nonexistent", "capability">>
    /\ find_capability(modules, last.request.capability) = None
    /\ last.result.status = ERROR
    /\ last.calls = <<>>

\* C10: a handler run that dispatches a capability no enabled module resolves
\* leaves the number of audit rows as it was.
UnresolvedDispatchLeavesAudit ==
    [][(last'.dispatched /\ find_capability(modules, last'.request.capability) = None) =>
          Len(audit') = Len(audit)]_vars

\* C11: every handler run whose dispatch reached the module and returned adds
\* exactly one audit row, whichever front end carried the request.
CompletedDispatchAddsOneRow ==
    [][(last'.dispatched /\ Len(last'.calls) = 1 /\ ~Hung(last')) =>
          Len(audit') = Len(audit) + 1]_vars

\* C12: no audit row with status requires_confirmation is ever written.
NoConfirmationRowWritten ==
    \A i \in DOMAIN audit : audit[i].status # REQUIRES_CONFIRMATION

\* C13: the audit row written for a Telegram dispatch that reached a module
\* carries the requester, the name of the module that owns the capability, the
\* params, the status and the result.
AuditRowNamesOwningModule ==
    (last.op = "handle_message" /\ last.branch = "dispatched" /\ Len(last.calls) = 1) =>
        /\ audit # <<>>
        /\ audit[Len(audit)].user_id = last.user
        /\ audit[Len(audit)].module = last.calls[1].module
        /\ audit[Len(audit)].status = last.result.status
        /\ audit[Len(audit)].result = Some(last.result.message)

\* C14: when an exception escapes the module's execute, the dispatch still
\* returns: an ActionResult with status error whose message names the capability
\* and the cause, and the handler goes on as after any other result.
ModuleFaultBecomesError ==
    (last.dispatched /\ last.calls # <<>> /\ last.calls[1].ended = "raised") =>
        /\ last.result.status = ERROR
        /\ last.result.message = Msg("Error executing '{}': <cause>", last.request.capability)
        /\ last.branch \notin {"raised", "hung"}

\* C14 witness: POST /action for system.status, the module raised, the answer is
\* the dispatcher's error and it was logged.
ModuleFaultSeen ==
    /\ last.op = "execute_action"
    /\ last.request.capability = <<"system", "status">>
    /\ last.calls # <<>>
    /\ last.calls[1].ended = "raised"
    /\ last.result.status = ERROR
    /\ audit # <<>>
    /\ audit[Len(audit)].status = ERROR

\* C15: no dispatch makes more than one execute call, and a dispatch whose
\* capability resolves to a descriptor that needs no confirmation makes exactly one,
\* whatever the call's outcome.
ExactlyOneExecutePerDispatch ==
    last.dispatched =>
        /\ Len(last.calls) <= 1
        /\ (/\ find_capability(modules, last.request.capability) # None
            /\ ~ResolvesGated(modules, last.request.capability)) => Len(last.calls) = 1

\* C15 witness: the one execute call returned an error result and was not repeated.
FailedCallNotRetried ==
    /\ last.dispatched
    /\ Len(last.calls) = 1
    /\ last.calls[1].ended = "returned"
    /\ last.result.status = ERROR

\* C16: every dispatch returns an ActionResult; when the module's execute never
\* completes, the result is status error.
DispatchAlwaysAnswers ==
    last.dispatched =>
        /\ last.result.status \in ActionStatus
        /\ Hung(last) => last.result.status = ERROR

\* C17: a handler run during which an audit write raised ends in an error for the
\* caller (an escaping exception or an HTTP error), never in a normal answer.
AuditFailureSurfaces ==
    last.audit_failed => last.branch \in {"raised", "500"}

\* C18: under interleaved log_action calls of the two threads, the table holds one
\* row per completed call, row ids follow commit order without gaps or repeats, and
\* every call was handed the id of its own row, so no two calls got the same id and
\* each thread's ids increase.
LogAppendsAtomic ==
    /\ \A i \in DOMAIN audit : audit[i].id = i
    /\ Len(threads["api"].ids) + Len(threads["telegram"].ids) = Len(audit)
    /\ \A t \in Threads : \A k \in DOMAIN threads[t].ids :
           /\ threads[t].ids[k] \in DOMAIN audit
           /\ audit[threads[t].ids[k]].module = ThreadRecord(t).module
           /\ \A j \in DOMAIN threads[t].ids : j < k => threads[t].ids[j] < threads[t].ids[k]

\* C18 witness: both threads completed a log_action, and the one that read the
\* clock later committed first.
InterleavedAppendsSeen ==
    /\ Len(audit) = 2
    /\ audit[1].module # audit[2].module
    /\ audit[1].timestamp > audit[2].timestamp
    /\ threads["api"].ids # <<>>
    /\ threads["telegram"].ids # <<>>

\* C19: get_recent_logs(limit) returns the min(limit, count) rows appended last, the
\* latest append first.
RecentLogsNewestFirst ==
    [][\A t \in Threads :
          (/\ threads[t].pc = "idle"
           /\ threads'[t].pc = "idle"
           /\ threads'[t].op = "get_recent_logs"
           /\ threads'[t] # threads[t]) =>
              /\ Len(threads'[t].rows) <= threads'[t].limit
              /\ Len(threads'[t].rows) <= Len(audit)
              /\ Len(threads'[t].rows) \in {threads'[t].limit, Len(audit)}
              /\ \A k \in DOMAIN threads'[t].rows :
                     threads'[t].rows[k] = audit[Len(audit) - k + 1]]_vars

\* C20: no step removes or changes a stored row of the audit log or of the notes
\* store; the tables only grow at the end.
AppendOnly ==
    [][/\ Len(audit') >= Len(audit)
       /\ \A i \in DOMAIN audit : audit'[i] = audit[i]
       /\ Len(notes') >= Len(notes)
       /\ \A i \in DOMAIN notes : notes'[i] = notes[i]]_vars

\* C20 witness: both tables hold two rows, written by interleaved calls.
TablesGrew ==
    /\ Len(audit) = 2
    /\ Len(notes) = 2
    /\ notes[1].timestamp < audit[2].timestamp
    /\ audit[1].timestamp < notes[2].timestamp

\* C21: list_capabilities reads only: a call changes neither the registry nor any
\* module, and the mapping it returns is determined by the registry alone (so calls
\* with no registry change between them return the same mapping): its keys are the
\* names of the enabled registered modules, and each value lists that module's
\* capability names in declaration order.
ListCapabilitiesReadOnly ==
    [][last'.op = "list_capabilities" =>
          /\ UNCHANGED <<modules, pending, owner, audit, client, history, started>>
          /\ DOMAIN last'.value[1] =
                 {modules[i].name : i \in {j \in DOMAIN modules : modules[j].enabled}}
          /\ \A i \in DOMAIN modules :
                 modules[i].enabled =>
                     /\ DOMAIN last'.value[1][modules[i].name] =
                            DOMAIN ClassCapabilities(modules[i].cls)
                     /\ \A k \in DOMAIN ClassCapabilities(modules[i].cls) :
                            last'.value[1][modules[i].name][k] =
                                ClassCapabilities(modules[i].cls)[k].name]_vars

\* a listing taken while one registered module is disabled and another enabled
ListedEnabledOnly ==
    /\ last.op = "list_capabilities"
    /\ Len(modules) = 2
    /\ ~modules[1].enabled
    /\ modules[2].enabled

\* C23: register(module) leaves the given instance as the one entry under
\* module.name, in the place of the entry it replaces or at the end of the table,
\* and leaves every other entry as it was.
RegisterInsertsOrReplaces ==
    [][last'.op = "register" =>
          /\ \E i \in DOMAIN modules' : modules'[i] = last'.value[1]
          /\ \A i, j \in DOMAIN modules' :
                 modules'[i].name = modules'[j].name => i = j
          /\ \A i \in DOMAIN modules :
                 modules[i].name # last'.value[1].name => modules'[i] = modules[i]
          /\ Len(modules') = Len(modules) + (IF last'.prior = None THEN 1 ELSE 0)]_vars

\* a registration that replaced a disabled instance beside another module
RegisterReplaced ==
    /\ last.op = "register"
    /\ last.prior # None
    /\ ~last.prior[1].enabled
    /\ Len(modules) = 2
    /\ \A i \in DOMAIN modules : modules[i].name = last.value[1].name => modules[i].enabled

\* C24: unregister(name) returns true exactly when an entry for name was present;
\* afterwards no entry is named name, no capability name resolves to a module of
\* that name, and the other entries are unchanged and in their order; when name
\* was absent the table is unchanged.
UnregisterRemovesEntry ==
    [][last'.op = "unregister" =>
          /\ last'.value[1] = (\E i \in DOMAIN modules : modules[i].name = last'.branch)
          /\ \A i \in DOMAIN modules' : modules'[i].name # last'.branch
          /\ \A c \in NamesIn :
                 find_capability(modules', c) # None =>
                     find_capability(modules', c)[1].module.name # last'.branch
          /\ modules' = SelectSeq(modules, LAMBDA m : m.name # last'.branch)
          /\ ~last'.value[1] => modules' = modules]_vars

\* a removal that took one entry out and left another
UnregisterRemoved ==
    /\ last.op = "unregister"
    /\ last.value = Some(TRUE)
    /\ Len(modules) = 1

\* C22: get_state of a module changes no state of any module (the Kali module's
\* cached SSH client included), and two calls on the same module with nothing
\* between them return identical results.
GetStateReadsOnly ==
    [][last'.op = "get_module" /\ last'.value # None =>
          /\ UNCHANGED <<modules, client>>
          /\ (/\ last.op = "get_module"
              /\ last.value # None
              /\ last.value[1].module = last'.value[1].module) =>
                 last'.value = last.value]_vars

\* the owner's message went past the two rejections of handle_message
Served == last.op = "handle_message" /\ last.branch \notin {"uninitialized", "ignored"}

\* the requester's slot was filled before the run and is gone after it
SlotCleared == last.prior # None /\ owner[1] \notin DOMAIN pending

\* the reply was taken as a yes: the slot is cleared and the stored action dispatched
TakenAsYes == SlotCleared /\ last.dispatched /\ last.request = last.prior[1]

\* the reply was taken as a no: the slot is cleared and nothing is dispatched
TakenAsNo == SlotCleared /\ ~last.dispatched

ClaimedAffirmative ==
    { <<"y","e","s">>, <<"y">>, <<"c","o","n","f","i","r","m">>, <<"o","k">> }

ClaimedNegative ==
    { <<"n","o">>, <<"n">>, <<"c","a","n","c","e","l">>, <<"a","b","o","r","t">> }

\* the reading of replies against a vocabulary
RepliesMatch(affirmative, negative) ==
    Served =>
        /\ last.prior # None =>
               /\ TakenAsYes <=> lower(strip(said)) \in affirmative
               /\ TakenAsNo <=> lower(strip(said)) \in negative
        /\ last.prior = None =>
               /\ last.branch \notin {"confirm_yes", "confirm_no"}
               /\ last.dispatched => last.branch \in {"dispatched", "hung"}

\* C27 (as the code has it): while a requester awaits confirmation, a reply is taken
\* as affirmative or negative exactly when, trimmed and lower-cased, it equals a
\* word of the vocabulary - affirmative: yes, y, confirm, ok, do it; negative: no, n,
\* cancel, abort; a reply that only contains such a word is neither, and a reply
\* from an idle requester never takes a confirmation branch.
RepliesMatchVocabulary ==
    RepliesMatch(ClaimedAffirmative \cup {<<"d","o"," ","i","t">>}, ClaimedNegative)

\* a reply that contains "yes" without being it, sent while a confirmation is
\* awaited, and not taken as an answer
ContainingReplyNotTaken ==
    /\ Served
    /\ last.prior # None
    /\ said = <<"y","e","s"," ","p","l","e","a","s","e">>
    /\ ~SlotCleared

\* C27 (as stated): the same with the affirmative vocabulary yes, y, confirm, ok.
RepliesMatchStatedVocabulary == RepliesMatch(ClaimedAffirmative, ClaimedNegative)

\* the consequences of a rejection: nothing is written to the pending slots, the
\* interpreter is not called (it would append to its history), nothing is
\* dispatched
RejectedStep ==
    /\ UNCHANGED <<pending, history, audit, modules, client>>
    /\ last'.branch \in {"uninitialized", "ignored"}
    /\ ~last'.dispatched
    /\ last'.calls = <<>>

\* C28 (as the code has it): a message from a requester who is not the owner - the
\* user who first sent /start, or the configured authorized user - and any
\* message while there is no owner, is rejected before the confirmation state
\* machine: the pending slots are untouched, the interpreter is not reached and
\* nothing is dispatched.
NonOwnerRejected ==
    [][\A u \in Users :
          (/\ last'.op = "handle_message"
           /\ last'.user = Uid(u)
           /\ owner # Some(u)) => RejectedStep]_vars

\* a stranger's message rejected while the owner has a confirmation pending
StrangerRejected ==
    /\ last.op = "handle_message"
    /\ last.branch = "ignored"
    /\ owner # None
    /\ owner[1] \in DOMAIN pending
    /\ last.user # Uid(owner[1])

\* C28 (as stated): a message from a requester whose /start has not been answered
\* with the welcome is rejected in that way.
UnstartedRejected ==
    [][\A u \in Users :
          (/\ last'.op = "handle_message"
           /\ last'.user = Uid(u)
           /\ u \notin started) => RejectedStep]_vars

\* C25: when the backend is unreachable, answers with a status other than 200, or
\* returns output that cannot be parsed as the expected object, interpret returns
\* what the rule-based fallback gives for the message.
FallbackOnBackendFailure ==
    (/\ last.op = "interpret"
     /\ last.branch \in {"unreachable", "non200", "no_json", "bad_json", "not_object"}) =>
        last.value = Some(_fallback_interpret(said))

\* C26: clearing the conversation leaves the registry with its enabled flags, the
\* pending confirmations, the audit log and the modules' state as they were, so
\* that every dispatch gives after the clear what it gave before it.
ClearLeavesDispatchAlone ==
    [][last'.op = "clear_conversation" =>
          /\ UNCHANGED <<modules, pending, owner, audit, client>>
          /\ \A r \in RequestsIn, env \in EnvIn :
                 dispatch(modules', r.capability, r.params, env) =
                     dispatch(modules, r.capability, r.params, env)]_vars

\* a clear that dropped entries of the history while the audit log held rows
ClearedSomething ==
    /\ last.op = "clear_conversation"
    /\ last.value # None
    /\ last.value[1] > 0
    /\ history = 0
    /\ audit # <<>>

\* C29: every dispatch outcome handed to a front end carries a message that is not
\* empty, also once execute_interpreted has put the interpreter's response in it.
OutcomeHasMessage ==
    (last.dispatched /\ last.result.status \in ActionStatus) =>
        last.result.message.fmt # ""

\* C30: the ActionResult a front end ends up with is the one the module's
\* execute returned, field by field.
ResultNeverAltered ==
    (/\ last.dispatched
     /\ last.calls # <<>>
     /\ last.calls[1].ended = "returned"
     /\ get(modules, last.calls[1].module) # None) =>
        \E env \in {"ok", "fail"} :
            last.result = execute(get(modules, last.calls[1].module)[1],
                                  last.calls[1].action, last.calls[1].params, env)

\* C38: whenever interpret has returned, whatever the backend did and however
\* interpret and clear_history calls were ordered, conversation_history holds at
\* most 10 entries.
HistoryWindowBounded ==
    last.op = "interpret" => history <= 10

\* the enabled table positions advertising a descriptor named name
EnabledAdvertisers(name) ==
    {i \in DOMAIN modules :
        /\ modules[i].enabled
        /\ \E k \in DOMAIN ClassCapabilities(modules[i].cls) :
               ClassCapabilities(modules[i].cls)[k].name = name}

\* those of them the text before the first separator names
PrefixAdvertisers(name) ==
    {i \in EnabledAdvertisers(name) : Len(name) > 1 /\ modules[i].name = name[1]}

\* the two-stage reference: namespaced hit first, else first enabled advertiser
TwoStageReference(name) ==
    IF PrefixAdvertisers(name) # {}
    THEN Some([module |-> modules[CHOOSE i \in PrefixAdvertisers(name) : TRUE],
               action |-> SubSeq(name, 2, Len(name))])
    ELSE IF EnabledAdvertisers(name) # {}
    THEN Some([module |-> modules[CHOOSE i \in EnabledAdvertisers(name) :
                                      \A j \in EnabledAdvertisers(name) : i <= j],
               action |-> name])
    ELSE None

\* C32: for every name and registry state, find_capability returns what the
\* two-stage reference returns: the enabled module named by the prefix with the
\* text after the first separator when it advertises the full name, else the first
\* enabled advertiser in table order with the full name, else nothing.
FindAgreesWithReference ==
    last.op = "find_capability" =>
        last.found = TwoStageReference(last.request.capability)

\* C32 witness: alpha.scan was looked up while beta, enabled, advertised it and no
\* enabled alpha did; the scan phase returned beta with the full name.
FindFellBackToScan ==
    /\ last.op = "find_capability"
    /\ last.request.capability = <<"alpha", "scan">>
    /\ PrefixAdvertisers(<<"alpha", "scan">>) = {}
    /\ last.found # None
    /\ last.found[1].module.name = "beta"
    /\ last.found[1].action = <<"alpha", "scan">>

\* rule r of the fallback, by priority, matches the lower-cased message m
Matches(r, m) ==
    CASE r = 1 -> AnyIn(m, ScreenshotWords)
      [] r = 2 -> AnyIn(m, OpenWords) /\ \E i \in DOMAIN AppNames : Contains(m, AppNames[i])
      [] r = 3 -> AnyIn(m, StatusWords)
      [] r = 4 -> AnyIn(m, NoteWords)
      [] r = 5 -> AnyIn(m, HelpWords)
      [] OTHER -> TRUE

\* the highest-priority rule matched, 6 when none is
WinningRule(m) ==
    CHOOSE r \in 1..6 : Matches(r, m) /\ \A q \in 1..(r - 1) : ~Matches(q, m)

\* the first application of the list the message names
NamedApp(m) ==
    AppId[CHOOSE i \in DOMAIN AppNames :
              /\ Contains(m, AppNames[i])
              /\ \A j \in 1..(i - 1) : ~Contains(m, AppNames[j])]

\* the action each rule stands for
RuleAction(r, m) ==
    CASE r = 1 -> Some(Request(<<"system", "screenshot">>, {}))
      [] r = 2 -> Some(Request(<<"windows", "open_app">>, {<<"app", NamedApp(m)>>}))
      [] r = 3 -> Some(Request(<<"system", "status">>, {}))
      [] r = 4 -> Some(Request(<<"system", "add_note">>, {<<"content", "<message>">>}))
      [] OTHER -> None

\* the response each rule gives; that of the help rule lists what enabled holds
RuleResponse(r, m, enabled) ==
    CASE r = 1 -> Msg("Taking a screenshot...", <<>>)
      [] r = 2 -> Msg("Opening {}...", <<NamedApp(m)>>)
      [] r = 3 -> Msg("Checking system status...", <<>>)
      [] r = 4 -> Msg("Saving note...", <<>>)
      [] r = 5 -> Msg("I can help you with: {}", <<enabled>>)
      [] OTHER -> Msg("I received your message: <message>", <<>>)

RuleAnswer(r, m, enabled) == Interpretation(RuleAction(r, m), RuleResponse(r, m, enabled))

\* what the rules, tried in their priority, answer to message m
PriorityAnswer(m, enabled) == RuleAnswer(WinningRule(m), m, enabled)

\* C33 (as the code has it): a fallback call returns the action and the response
\* of the highest-priority rule its message matches (screenshot, open with a known
\* application, status, note, help, else the clarification), the response of the
\* help rule listing the modules enabled at the time of the call.
FallbackFollowsPriority ==
    [][(last'.op = "_fallback_interpret" /\ modules' = modules) =>
          last'.value = Some(PriorityAnswer(lower(said'), list_capabilities(modules')))]_vars

\* C33 witness: "open chrome status" matches the open rule and the status rule and
\* was answered with windows.open_app for chrome.
FallbackChoseOpenOverStatus ==
    /\ last.op = "_fallback_interpret"
    /\ said = <<"o","p","e","n"," ","c","h","r","o","m","e"," ","s","t","a","t","u","s">>
    /\ Matches(2, said) /\ Matches(3, said)
    /\ last.value[1].action = Some(Request(<<"windows", "open_app">>, {<<"app", "chrome">>}))

\* C33 (as stated): as above, and two calls in a row with the same message return
\* the same action and response whatever happened in between.
FallbackDependsOnMessageAlone ==
    [][/\ (last'.op = "_fallback_interpret" /\ modules' = modules) =>
              last'.value[1].action = PriorityAnswer(lower(said'), <<>>).action
       /\ (last.op = "_fallback_interpret" /\ modules' = modules /\ said' = said) =>
              last'.value = last.value]_vars

\* C34: every module whose execute a front-end handler has just invoked (a Telegram
\* message or command, /status included, POST /action, POST /message) is
\* registered and enabled at the moment of the call.
DisabledModuleNeverExecutes ==
    \A k \in DOMAIN last.calls :
        \E i \in DOMAIN modules :
            modules[i].name = last.calls[k].module /\ modules[i].enabled

\* C35: the owner, once set, never changes; a /start, a message or a /status from
\* a user who is not the owner at that moment reaches neither the interpreter nor
\* the dispatcher nor a module's execute; and only the owner has a pending slot.
OwnerAloneIsServed ==
    [][/\ owner # None => owner' = owner
       /\ \A u \in Users :
              (/\ last'.op \in {"start", "handle_message", "status_command"}
               /\ last'.user = Uid(u)
               /\ owner # Some(u)) =>
                  (last'.calls = <<>> /\ ~last'.dispatched /\ history' = history)
       /\ \A u \in DOMAIN pending' : owner' = Some(u)]_vars

\* the words that answer a pending confirmation
AnswerWords == AffirmativeWords \cup NegativeWords

\* requester u's message, read as reply, was handled as C36 describes
HandledBesidePending(u, reply) ==
    /\ (/\ reply \notin AnswerWords
        /\ \/ last'.request = NoRequest
           \/ ~ResolvesGated(modules, last'.request.capability)) =>
           /\ pending' = pending
           /\ last'.request # NoRequest => last'.dispatched
    /\ u \notin DOMAIN pending' => reply \in AnswerWords
    /\ reply \in AffirmativeWords =>
           /\ last'.dispatched
           /\ last'.request = pending[u]

ClassNamed(name) == (CHOOSE m \in Range(modules) : m.name = name).cls

\* the call asks class cls for an action it has no handler for, or for one whose
\* required parameter is absent from params or empty
BadRequest(cls, action, params) ==
    \/ action \notin {e[1] : e \in ClassActionMap(cls)}
    \/ \E e \in ClassActionMap(cls) :
           /\ e[1] = action
           /\ RequiredParam(e[2]) # ""
           /\ ~\E p \in params : p[1] = RequiredParam(e[2]) /\ p[2] # ""

\* C31: execute of a shipped module, called with an action it does not know or with
\* a required parameter missing or empty, returns an ActionResult with status
\* error and a message, raises nothing, and leaves the notes and the SSH client
\* as they were.
BadRequestsRejected ==
    [][(/\ last'.op = "execute"
        /\ BadRequest(ClassNamed(last'.calls[1].module), last'.calls[1].action,
                      last'.calls[1].params)) =>
           /\ last'.result.status = ERROR
           /\ last'.result.message.fmt # ""
           /\ last'.calls[1].ended = "returned"
           /\ client' = client
           /\ notes' = notes]_vars

\* C31 witness: after a note was stored, add_note was executed with an empty
\* content and answered with an error.
EmptyNoteRejected ==
    /\ last.op = "execute"
    /\ last.calls[1].module = "system"
    /\ last.calls[1].action = <<"add_note">>
    /\ last.calls[1].params = {<<"content", "">>}
    /\ last.result.status = ERROR
    /\ Len(notes) = 1

\* C37: every descriptor a shipped module advertises has a handler under its full
\* name and under the text after the first separator, and a dispatch that reached
\* a module's execute never came back with the module's "Unknown action" error.
AdvertisedActionsHandled ==
    /\ \A i \in DOMAIN modules : \A k \in DOMAIN ClassCapabilities(modules[i].cls) :
           /\ Handler(modules[i].cls, ClassCapabilities(modules[i].cls)[k].name) # None
           /\ Handler(modules[i].cls, Tail(ClassCapabilities(modules[i].cls)[k].name)) # None
    /\ (last.op = "dispatch" /\ last.calls # <<>>) =>
           last.result.message.fmt # "Unknown action: {}"

\* C37 witness: kali.get_ip was dispatched, reached the Kali module as get_ip and
\* was answered by its handler.
ShortNameHandled ==
    /\ last.op = "dispatch"
    /\ last.request.capability = <<"kali", "get_ip">>
    /\ last.calls # <<>>
    /\ last.calls[1].action = <<"get_ip">>
    /\ last.result.message.arg = <<"_get_ip">>

\* both register_modules calls have returned
BothRegistered == \A t \in Threads : threads[t].pc = "done"

\* C39: however the API thread's unconditional registrations and the Telegram
\* thread's register-if-absent registrations interleave, once both are through
\* the registry holds exactly system, windows, cursor, kali, one entry each, in
\* that order, all enabled.
BothModeRegistersFour ==
    BothRegistered =>
        /\ [i \in DOMAIN modules |-> modules[i].name] = <<"system", "windows", "cursor", "kali">>
        /\ \A i \in DOMAIN modules : modules[i].enabled

\* C39 witness: both are through, the Telegram thread registered system first, and
\* the API thread's instance took its place; kali was registered by the Telegram
\* thread after the API thread.
BothModeInterleaved ==
    /\ BothRegistered
    /\ modules[1].thread = "api"
    /\ modules[4].thread = "telegram"

====
